---- MODULE Spec2Model ----
(***************************************************************************)
(* Model of the liveness verification engine of IPTVFlow                   *)
(* (src/iptvflow.py, src/iptvflowLite.py): test_hosts_two_phase and its    *)
(* nested fallback_test, run on two thread pools by one collecting thread;  *)
(* build_final_playlist and the channel lists of the report; the probers   *)
(* is_valid_hls_stream and test_single_stream; get_host_key, guess_group;  *)
(* the blacklist filter of iptvflowLite's main; KeyboardInterrupt in       *)
(* __main__; and the tester under fair scheduling.                         *)
(***************************************************************************)
EXTENDS Integers, Sequences, FiniteSets, TLC

(***************************************************************************)
(* Bounds of the model.                                                    *)
(***************************************************************************)
\* longest URL list of one endpoint
MaxUrls == 5
\* Config.MAX_WORKERS, scaled down to the number of modelled endpoints
MAX_WORKERS == 2

(***************************************************************************)
(* Program constants.                                                      *)
(***************************************************************************)
\* candidates[:3]
MaxFallback == 3
\* "latency": 999 of the no_fallback / all_failed records
NoLatency == 999
\* Config.HLS_EXTENSIONS
HLS_EXTENSIONS == {".m3u8", ".m3u"}

(***************************************************************************)
(* Values.                                                                 *)
(***************************************************************************)
\* endpoint keys ("host:port"), in the insertion order of the input dict
HostOrder == <<"a.test:80", "b.test:80">>
Hosts == {HostOrder[i] : i \in 1..Len(HostOrder)}

\* Python's None, as a URL-shaped value
None == [host |-> "None", idx |-> 0, ext |-> ""]

\* the verdicts is_valid_hls_stream can return (alive, latency, type)
Verdicts ==
    { [alive |-> TRUE,  latency |-> 1, type |-> "master"],
      [alive |-> TRUE,  latency |-> 2, type |-> "media"],
      [alive |-> FALSE, latency |-> 1, type |-> "dead"],
      [alive |-> FALSE, latency |-> 2, type |-> "not_hls"] }

\* a URL list of n distinct URLs of endpoint h: plain paths before position
\* p, manifest extensions from p on
UrlList(h, n, p) ==
    [i \in 1..n |-> [host |-> h, idx |-> i,
                     ext |-> IF i < p THEN ".ts"
                             ELSE IF i = p THEN ".m3u8" ELSE ".m3u"]]

\* the positions p drawn: a manifest in the middle of the list, or none at all
HlsFrom == {3, MaxUrls + 1}

ListsOf(h) == {UrlList(h, n, p) : n \in 0..MaxUrls, p \in HlsFrom}

AllLists == UNION {ListsOf(h) : h \in Hosts}

Inputs ==
    UNION { {f \in [D -> AllLists] : \A h \in D : f[h] \in ListsOf(h)}
            : D \in SUBSET Hosts }

Min(a, b) == IF a < b THEN a ELSE b

\* the endpoints of a whole run of main
MainHostOrder == HostOrder \o <<"c.test:80">>
MainHosts == {MainHostOrder[i] : i \in 1..Len(MainHostOrder)}

\* keys of a dict in insertion order
Keys(d) == SelectSeq(MainHostOrder, LAMBDA h : h \in DOMAIN d)

\* d[k] = v of a Python dict
Put(d, k, v) == [x \in (DOMAIN d) \cup {k} |-> IF x = k THEN v ELSE d[x]]

VARIABLES
    host_to_urls,     \* the argument
    pc,               \* position of the collecting thread
    p1_status,        \* phase-1 futures, by submission index
    p1_result,        \* is_valid_hls_stream verdict held by a phase-1 future
    initial_results,
    host_quality,
    hosts_to_retry,
    fb_status,        \* phase-2 futures, by submission index
    fb_i,             \* loop index of fallback_test
    fb_res,           \* res of the last loop iteration of fallback_test
    fb_result,        \* return value of fallback_test
    probe_log,        \* history: probes issued per endpoint
    write_log,        \* history: assignments to host_quality per key
    mock,             \* the probing backend: mocked (fixed verdict per URL) or not
    grouped,          \* main: channels in insertion order, each with its items
    url_to_host,      \* main: URL -> endpoint key
    channel_to_candidates,
    final_channels,
    bp_pc,            \* build_final_playlist: channel, candidate, probe in flight
    confirm_log,      \* history: confirmatory probes issued
    report,           \* generate_outputs_and_notify: the two channel lists
    pr_pc,            \* position inside is_valid_hls_stream / test_single_stream
    pr_env,           \* the URL probed and the tools installed
    pr_io,            \* what the requests made so far returned
    pr_out,           \* what the prober returned
    call,             \* a call of a pure function: its arguments and its value
    proc,             \* the process: running, interrupted, or its exit
    lite,             \* iptvflowLite main: blacklist, raw and filtered channels
    stats             \* main: the statistics handed to the report

playlistVars == <<grouped, url_to_host, channel_to_candidates, final_channels,
                  bp_pc, confirm_log, report>>

proberVars == <<pr_pc, pr_env, pr_io, pr_out>>

auxVars == <<call, proc, lite, stats>>

vars == <<host_to_urls, pc, p1_status, p1_result, initial_results,
          host_quality, hosts_to_retry, fb_status, fb_i, fb_res, fb_result,
          probe_log, write_log, mock, playlistVars, proberVars, auxVars>>

(***************************************************************************)
(* test_hosts_two_phase: host_data                                         *)
(***************************************************************************)
EndsWithHls(u) == u.ext \in HLS_EXTENSIONS

RECURSIVE FirstHls(_, _)
FirstHls(urls, i) ==
    IF i > Len(urls) THEN urls[1]
    ELSE IF EndsWithHls(urls[i]) THEN urls[i]
    ELSE FirstHls(urls, i + 1)

\* variant: the last URL with a manifest extension
RepUrlLastHls(urls) ==
    IF Len(urls) = 0 THEN None
    ELSE LET hls == {i \in 1..Len(urls) : EndsWithHls(urls[i])}
         IN  IF hls = {} THEN urls[1]
             ELSE urls[CHOOSE i \in hls : \A k \in hls : k <= i]

\* next((u for u in urls if u.endswith(HLS_EXTENSIONS)), urls[0]) if urls else None
RepUrl(urls) == IF Len(urls) > 0 THEN FirstHls(urls, 1) ELSE None

host_data == [h \in DOMAIN host_to_urls |->
                [all_urls |-> host_to_urls[h], rep_url |-> RepUrl(host_to_urls[h])]]

\* hosts of the phase-1 futures, in submission order
future_to_host == SelectSeq(Keys(host_to_urls), LAMBDA h : host_data[h].rep_url # None)

(***************************************************************************)
(* Thread pools: tasks start in submission order, at most MAX_WORKERS run  *)
(***************************************************************************)
Running(status) == {f \in DOMAIN status : status[f] = "running"}

\* variant: a worker thread per submitted task
CanStartUnbounded(status, f) ==
    /\ status[f] = "queued"
    /\ \A g \in DOMAIN status : g < f => status[g] # "queued"

CanStart(status, f) ==
    /\ status[f] = "queued"
    /\ \A g \in DOMAIN status : g < f => status[g] # "queued"
    /\ Cardinality(Running(status)) < MAX_WORKERS

AllCollected(status) == \A f \in DOMAIN status : status[f] = "collected"

\* placeholders of futures that hold no value yet
NoVerdict == [alive |-> FALSE, latency |-> 0, type |-> "none"]
NoReturn == [host |-> "None", success |-> FALSE, final_result |-> NoVerdict, trials |-> 0]

\* the verdicts a call of is_valid_hls_stream(url) can return: any, or with a
\* mocked backend the one the URL got at its first call
Prober(url) ==
    IF mock.fixed /\ url \in DOMAIN mock.verdict
    THEN {mock.verdict[url]}
    ELSE Verdicts

\* the mocked backend keeps the verdict it gave
Remember(url, v) ==
    IF mock.fixed /\ url \notin DOMAIN mock.verdict
    THEN [mock EXCEPT !.verdict = [u \in (DOMAIN mock.verdict) \cup {url} |->
                                     IF u = url THEN v ELSE mock.verdict[u]]]
    ELSE mock

\* the rest of main and the probers' internals are not running
PlaylistIdle ==
    /\ grouped = << >>
    /\ url_to_host = << >>
    /\ channel_to_candidates = << >>
    /\ final_channels = << >>
    /\ bp_pc = [ch |-> 0, cand |-> 0, inflight |-> FALSE]
    /\ confirm_log = << >>
    /\ report = [available |-> {}, unavailable |-> {}]

ProberIdle ==
    /\ pr_pc = "idle"
    /\ pr_env = << >>
    /\ pr_io = << >>
    /\ pr_out = << >>

\* no pure function is under test; the process runs and has no statistics yet
NoCall == [fn |-> "none", args |-> << >>, out |-> << >>, done |-> FALSE]
NoRate == [num |-> 0, den |-> 0]
NoStats == [unique_hosts |-> 0, alive_hosts |-> 0, survival_rate |-> NoRate]

AuxIdle ==
    /\ call = NoCall
    /\ proc = "running"
    /\ lite = << >>
    /\ stats = NoStats

LogProbe(h, u, v, ph) ==
    [probe_log EXCEPT ![h] = Append(@, [url |-> u, alive |-> v.alive, phase |-> ph])]

LogWrite(wl, h, owner, src) ==
    [wl EXCEPT ![h] = Append(@, [by |-> owner, src |-> src])]

\* test_hosts_two_phase is entered: host_quality = {}, phase-1 futures submitted
TesterStart ==
    /\ pc = "phase1"
    /\ p1_status = [f \in 1..Len(future_to_host) |-> "queued"]
    /\ p1_result = [f \in 1..Len(future_to_host) |-> NoVerdict]
    /\ initial_results = << >>
    /\ host_quality = << >>
    /\ hosts_to_retry = << >>
    /\ fb_status = << >>
    /\ fb_i = << >>
    /\ fb_res = << >>
    /\ fb_result = << >>
    /\ probe_log = [h \in MainHosts |-> << >>]
    /\ write_log = [h \in MainHosts |-> << >>]

Init ==
    /\ host_to_urls \in Inputs
    /\ TesterStart
    /\ mock = [fixed |-> FALSE, verdict |-> << >>]
    /\ PlaylistIdle
    /\ ProberIdle
    /\ AuxIdle

(***************************************************************************)
(* Phase 1: screening                                                      *)
(***************************************************************************)
\* a pool worker takes executor.submit(is_valid_hls_stream, data["rep_url"])
Phase1Start(f) ==
    /\ f \in DOMAIN p1_status
    /\ CanStart(p1_status, f)
    /\ p1_status' = [p1_status EXCEPT ![f] = "running"]
    /\ UNCHANGED <<mock, playlistVars, proberVars, auxVars>>
    /\ UNCHANGED <<host_to_urls, pc, p1_result, initial_results, host_quality,
                   hosts_to_retry, fb_status, fb_i, fb_res, fb_result,
                   probe_log, write_log>>

\* is_valid_hls_stream(rep_url) returns in the worker
Phase1Probe(f) ==
    /\ f \in DOMAIN p1_status
    /\ p1_status[f] = "running"
    /\ \E v \in Prober(host_data[future_to_host[f]].rep_url) :
         /\ p1_result' = [p1_result EXCEPT ![f] = v]
         /\ probe_log' = LogProbe(future_to_host[f],
                                  host_data[future_to_host[f]].rep_url, v, "p1")
         /\ mock' = Remember(host_data[future_to_host[f]].rep_url, v)
    /\ p1_status' = [p1_status EXCEPT ![f] = "done"]
    /\ UNCHANGED <<playlistVars, proberVars, auxVars>>
    /\ UNCHANGED <<host_to_urls, pc, initial_results, host_quality,
                   hosts_to_retry, fb_status, fb_i, fb_res, fb_result, write_log>>

\* variant: the first URL of the list is recorded instead of the representative
Phase1RecordFirstUrl(host, result) ==
    [alive |-> TRUE,
     latency |-> result.latency,
     type |-> result.type,
     representative_url |-> host_data[host].all_urls[1],
     trials |-> 1]

\* variant: trials counts the results collected so far
Phase1RecordCounted(host, result) ==
    [alive |-> TRUE,
     latency |-> result.latency,
     type |-> result.type,
     representative_url |-> host_data[host].rep_url,
     trials |-> Cardinality(DOMAIN initial_results) + 1]

\* the record of an endpoint whose representative is alive
Phase1Record(host, result) ==
    [alive |-> TRUE,
     latency |-> result.latency,
     type |-> result.type,
     representative_url |-> host_data[host].rep_url,
     trials |-> 1]

\* one iteration of: for future in as_completed(future_to_host)
Phase1Collect(f) ==
    /\ pc = "phase1"
    /\ f \in DOMAIN p1_status
    /\ p1_status[f] = "done"
    /\ LET host == future_to_host[f]
           result == p1_result[f]
       IN  /\ initial_results' = Put(initial_results, host, result)
           /\ IF result.alive
              THEN /\ host_quality' = Put(host_quality, host, Phase1Record(host, result))
                   /\ write_log' = LogWrite(write_log, host,
                                            host_data[future_to_host[f]].rep_url.host, "phase1")
              ELSE UNCHANGED <<host_quality, write_log>>
    /\ p1_status' = [p1_status EXCEPT ![f] = "collected"]
    /\ UNCHANGED <<mock, playlistVars, proberVars, auxVars>>
    /\ UNCHANGED <<host_to_urls, pc, p1_result, hosts_to_retry, fb_status,
                   fb_i, fb_res, fb_result, probe_log>>

(***************************************************************************)
(* Between the pools: hosts_to_retry and the no_fallback records           *)
(***************************************************************************)
\* variant: phase 2 is entered as soon as one phase-1 result was collected
Phase1DrainedEarly ==
    \/ DOMAIN p1_status = {}
    \/ \E f \in DOMAIN p1_status : p1_status[f] = "collected"

\* the with-block of phase 1 is left: every future was yielded by as_completed
Phase1Drained == AllCollected(p1_status)

\* variant: the membership test is dropped
UnresolvedAlways(host) == TRUE

\* variant: a host counts as unresolved while any host lacks a record
UnresolvedIfAnyMissing(host) == DOMAIN host_quality # DOMAIN host_data

\* if host not in host_quality
Unresolved(host) == host \notin DOMAIN host_quality

\* [u for u in data["all_urls"] if u != data["rep_url"]]
Candidates(data) == SelectSeq(data.all_urls, LAMBDA u : u # data.rep_url)

\* variant: the slice is dropped
TruncateNone(candidates) == candidates

\* candidates[:3]
Truncate(candidates) == SubSeq(candidates, 1, Min(MaxFallback, Len(candidates)))

\* variant: the record of the exhausted-chain default is used
NoFallbackRecordAllFailed(data) ==
    [alive |-> FALSE,
     latency |-> NoLatency,
     type |-> "all_failed",
     representative_url |-> data.rep_url,
     trials |-> 1]

NoFallbackRecord(data) ==
    [alive |-> FALSE,
     latency |-> NoLatency,
     type |-> "no_fallback",
     representative_url |-> data.rep_url,
     trials |-> 1]

RECURSIVE RetryList(_)
RetryList(hosts) ==
    IF hosts = << >> THEN << >>
    ELSE LET host == Head(hosts)
             candidates == Candidates(host_data[host])
         IN  (IF Unresolved(host) /\ candidates # << >>
              THEN << [host |-> host, cands |-> Truncate(candidates)] >>
              ELSE << >>) \o RetryList(Tail(hosts))

\* variant: only endpoints that were probed in phase 1 get the record
NoFallbackHostsProbedOnly ==
    {host \in DOMAIN host_data :
        /\ Unresolved(host)
        /\ Candidates(host_data[host]) = << >>
        /\ host_data[host].rep_url # None}

NoFallbackHosts ==
    {host \in DOMAIN host_data :
        Unresolved(host) /\ Candidates(host_data[host]) = << >>}

\* for host, data in host_data.items(): ... ; then the phase-2 pool is created
\* and every fallback_test is submitted
Phase2Build ==
    /\ pc = "phase1"
    /\ Phase1Drained
    /\ hosts_to_retry' = RetryList(Keys(host_data))
    /\ host_quality' = [host \in (DOMAIN host_quality) \cup NoFallbackHosts |->
                          IF host \in NoFallbackHosts
                          THEN NoFallbackRecord(host_data[host])
                          ELSE host_quality[host]]
    /\ write_log' = [host \in MainHosts |->
                       IF host \in NoFallbackHosts
                       THEN Append(write_log[host], [by |-> host, src |-> "no_fallback"])
                       ELSE write_log[host]]
    /\ fb_status' = [f \in 1..Len(hosts_to_retry') |-> "queued"]
    /\ fb_i' = [f \in 1..Len(hosts_to_retry') |-> 0]
    /\ fb_res' = [f \in 1..Len(hosts_to_retry') |-> NoVerdict]
    /\ fb_result' = [f \in 1..Len(hosts_to_retry') |-> NoReturn]
    /\ pc' = "phase2"
    /\ UNCHANGED <<mock, playlistVars, proberVars, auxVars>>
    /\ UNCHANGED <<host_to_urls, p1_status, p1_result, initial_results, probe_log>>

(***************************************************************************)
(* Phase 2: fallback_test on the second pool                               *)
(***************************************************************************)
FallbackStart(f) ==
    /\ f \in DOMAIN fb_status
    /\ CanStart(fb_status, f)
    /\ fb_status' = [fb_status EXCEPT ![f] = "running"]
    /\ UNCHANGED <<mock, playlistVars, proberVars, auxVars>>
    /\ UNCHANGED <<host_to_urls, pc, p1_status, p1_result, initial_results,
                   host_quality, hosts_to_retry, fb_i, fb_res, fb_result,
                   probe_log, write_log>>

\* variant: the loop does not stop at an alive verdict
LoopNeverReturns(res) == FALSE

\* if res["alive"]: return ...
LoopReturns(res) == res.alive

\* variant: the 0-based loop index is returned as the number of trials
FallbackSuccessIndex(host, res, url, i) ==
    [host |-> host, success |-> TRUE,
     final_result |-> [latency |-> res.latency, type |-> res.type, url |-> url],
     trials |-> i]

\* return host, True, {"latency", "type", "url"}, i + 1
FallbackSuccess(host, res, url, i) ==
    [host |-> host, success |-> TRUE,
     final_result |-> [latency |-> res.latency, type |-> res.type, url |-> url],
     trials |-> i + 1]

\* return host, False, (last_res or {"latency": 999, "type": "all_failed"}), len(candidates)
FallbackFailure(host, last_res, candidates) ==
    [host |-> host, success |-> FALSE,
     final_result |-> IF Len(candidates) > 0 THEN last_res
                      ELSE [latency |-> NoLatency, type |-> "all_failed"],
     trials |-> Len(candidates)]

\* one iteration of: for i, url in enumerate(candidates)
FallbackProbe(f) ==
    /\ f \in DOMAIN fb_status
    /\ fb_status[f] = "running"
    /\ fb_i[f] < Len(hosts_to_retry[f].cands)
    /\ LET host == hosts_to_retry[f].host
           i == fb_i[f]
           url == hosts_to_retry[f].cands[i + 1]
       IN  \E res \in Prober(url) :
             /\ probe_log' = LogProbe(url.host, url, res, "loop")
             /\ mock' = Remember(url, res)
             /\ fb_res' = [fb_res EXCEPT ![f] = res]
             /\ IF LoopReturns(res)
                THEN /\ fb_result' = [fb_result EXCEPT ![f] = FallbackSuccess(host, res, url, i)]
                     /\ fb_status' = [fb_status EXCEPT ![f] = "done"]
                     /\ UNCHANGED fb_i
                ELSE /\ fb_i' = [fb_i EXCEPT ![f] = i + 1]
                     /\ UNCHANGED <<fb_result, fb_status>>
    /\ UNCHANGED <<playlistVars, proberVars, auxVars>>
    /\ UNCHANGED <<host_to_urls, pc, p1_status, p1_result, initial_results,
                   host_quality, hosts_to_retry, write_log>>

\* after the loop: last_res = is_valid_hls_stream(candidates[-1]) if candidates else None
FallbackRecheck(f) ==
    /\ f \in DOMAIN fb_status
    /\ fb_status[f] = "running"
    /\ fb_i[f] = Len(hosts_to_retry[f].cands)
    /\ LET host == hosts_to_retry[f].host
           candidates == hosts_to_retry[f].cands
       IN  IF Len(candidates) > 0
           THEN \E last_res \in Prober(candidates[Len(candidates)]) :
                  /\ probe_log' = LogProbe(candidates[Len(candidates)].host,
                                           candidates[Len(candidates)], last_res, "recheck")
                  /\ mock' = Remember(candidates[Len(candidates)], last_res)
                  /\ fb_result' = [fb_result EXCEPT ![f] =
                                      FallbackFailure(host, last_res, candidates)]
           ELSE /\ fb_result' = [fb_result EXCEPT ![f] =
                                    FallbackFailure(host, NoVerdict, candidates)]
                /\ UNCHANGED <<probe_log, mock>>
    /\ fb_status' = [fb_status EXCEPT ![f] = "done"]
    /\ UNCHANGED <<playlistVars, proberVars, auxVars>>
    /\ UNCHANGED <<host_to_urls, pc, p1_status, p1_result, initial_results,
                   host_quality, hosts_to_retry, fb_i, fb_res, write_log>>

SuccessRecord(final_result, trials) ==
    [alive |-> TRUE,
     latency |-> final_result.latency,
     type |-> final_result.type,
     representative_url |-> final_result.url,
     trials |-> 1 + trials]

FailureRecord(final_result, rep_url, trials) ==
    [alive |-> FALSE,
     latency |-> final_result.latency,
     type |-> final_result.type,
     representative_url |-> rep_url,
     trials |-> 1 + trials]

\* one iteration of: for future in as_completed(futures)
FallbackCollect(f) ==
    /\ pc = "phase2"
    /\ f \in DOMAIN fb_status
    /\ fb_status[f] = "done"
    /\ LET host == fb_result[f].host
           success == fb_result[f].success
           final_result == fb_result[f].final_result
           trials == fb_result[f].trials
           rep_url == host_data[host].rep_url
       IN  /\ host_quality' = Put(host_quality, host,
                                  IF success THEN SuccessRecord(final_result, trials)
                                  ELSE FailureRecord(final_result, rep_url, trials))
           /\ write_log' = LogWrite(write_log, host, hosts_to_retry[f].host, "phase2")
    /\ fb_status' = [fb_status EXCEPT ![f] = "collected"]
    /\ UNCHANGED <<mock, playlistVars, proberVars, auxVars>>
    /\ UNCHANGED <<host_to_urls, pc, p1_status, p1_result, initial_results,
                   hosts_to_retry, fb_i, fb_res, fb_result, probe_log>>

\* a rate in percent, as the fraction num / den
ZeroRate == [num |-> 0, den |-> 1]
ZeroDivisionError == [num |-> 1, den |-> 0]

\* variant: the division is made whether or not there are endpoints
SurvivalRateUnguarded(alive, total) ==
    IF total = 0 THEN ZeroDivisionError ELSE [num |-> alive * 100, den |-> total]

\* alive / len(host_to_urls) * 100 if host_to_urls else 0
SurvivalRate(alive, total) ==
    IF total # 0 THEN [num |-> alive * 100, den |-> total] ELSE ZeroRate

\* sum(1 for r in host_quality.values() if r["alive"])
AliveHosts == Cardinality({h \in DOMAIN host_quality : host_quality[h].alive})

\* the phase-2 with-block is left (or skipped: if hosts_to_retry); the survival
\* rate is computed and logged; return host_quality
Finish ==
    /\ pc = "phase2"
    /\ AllCollected(fb_status)
    /\ pc' = "done"
    /\ stats' = [unique_hosts |-> Cardinality(DOMAIN host_to_urls),
                 alive_hosts |-> AliveHosts,
                 survival_rate |-> SurvivalRate(AliveHosts, Cardinality(DOMAIN host_to_urls))]
    /\ UNCHANGED <<mock, playlistVars, proberVars, call, proc, lite>>
    /\ UNCHANGED <<host_to_urls, p1_status, p1_result, initial_results,
                   host_quality, hosts_to_retry, fb_status, fb_i, fb_res,
                   fb_result, probe_log, write_log>>

Next ==
    \/ \E f \in DOMAIN p1_status : Phase1Start(f)
    \/ \E f \in DOMAIN p1_status : Phase1Probe(f)
    \/ \E f \in DOMAIN p1_status : Phase1Collect(f)
    \/ Phase2Build
    \/ \E f \in DOMAIN fb_status : FallbackStart(f)
    \/ \E f \in DOMAIN fb_status : FallbackProbe(f)
    \/ \E f \in DOMAIN fb_status : FallbackRecheck(f)
    \/ \E f \in DOMAIN fb_status : FallbackCollect(f)
    \/ Finish

Spec == Init /\ [][Next]_vars

\* the same run against a fully mocked probing backend
InitFixed ==
    /\ host_to_urls \in Inputs
    /\ TesterStart
    /\ mock = [fixed |-> TRUE, verdict |-> << >>]
    /\ PlaylistIdle
    /\ ProberIdle
    /\ AuxIdle

SpecFixed == InitFixed /\ [][Next]_vars

TypeOK ==
    /\ pc \in {"main", "phase1", "phase2", "done", "confirm", "built", "end"}
    /\ DOMAIN host_quality \subseteq MainHosts

(***************************************************************************)
(* main: grouped -> url_to_host -> host_to_urls -> test_hosts_two_phase     *)
(***************************************************************************)
\* url_to_host.get(url) of a URL that has no entry
NoHost == "None"

\* the endpoint key main gets for a URL; NoHost when the URL has no hostname
UrlHostKey(u) == IF u.host = "" THEN NoHost ELSE u.host

Item(h, i, name) ==
    [url |-> [host |-> h, idx |-> i, ext |-> IF i = 1 THEN ".m3u8" ELSE ".ts"],
     original_name |-> name]

\* the grouped channels of a run: three endpoints, two URLs each, and URLs
\* without a hostname
MainInputs ==
    { << [name |-> "X", items |-> << Item("a.test:80", 1, "X HD"),
                                     Item("b.test:80", 1, "X"),
                                     Item("c.test:80", 1, "X(1)") >>],
         [name |-> "Y", items |-> << Item("a.test:80", 2, "Y"),
                                     Item("", 1, "Y (bad)"),
                                     Item("b.test:80", 2, "Y HD"),
                                     Item("c.test:80", 2, "Y[1]") >>],
         [name |-> "Z", items |-> << Item("", 2, "Z") >>] >> }

\* the URLs of grouped, in the order main iterates them
RECURSIVE AllUrls(_)
AllUrls(channels) ==
    IF channels = << >> THEN << >>
    ELSE [j \in 1..Len(Head(channels).items) |-> Head(channels).items[j].url]
         \o AllUrls(Tail(channels))

\* url_to_host[item["url"]] = host for every URL with a host key
UrlToHost(channels) ==
    LET urls == {AllUrls(channels)[j] : j \in 1..Len(AllUrls(channels))}
    IN  [u \in {v \in urls : UrlHostKey(v) # NoHost} |-> UrlHostKey(u)]

\* host_to_urls[host].append(item["url"])
HostToUrls(channels) ==
    LET u2h == UrlToHost(channels)
        hosts == {u2h[u] : u \in DOMAIN u2h}
    IN  [h \in hosts |-> SelectSeq(AllUrls(channels),
                                   LAMBDA u : u \in DOMAIN u2h /\ u2h[u] = h)]

InitMain ==
    /\ grouped \in MainInputs
    /\ url_to_host = UrlToHost(grouped)
    /\ host_to_urls = HostToUrls(grouped)
    /\ TesterStart
    /\ mock = [fixed |-> FALSE, verdict |-> << >>]
    /\ channel_to_candidates = << >>
    /\ final_channels = << >>
    /\ bp_pc = [ch |-> 0, cand |-> 0, inflight |-> FALSE]
    /\ confirm_log = << >>
    /\ report = [available |-> {}, unavailable |-> {}]
    /\ ProberIdle
    /\ AuxIdle

(***************************************************************************)
(* build_final_playlist                                                    *)
(***************************************************************************)
\* host = url_to_host.get(url)
HostOf(url) == IF url \in DOMAIN url_to_host THEN url_to_host[url] ELSE NoHost

\* variant: any endpoint that has a record qualifies
IsCandidateAnyRecord(url) ==
    /\ HostOf(url) # NoHost
    /\ HostOf(url) \in DOMAIN host_quality

\* if host and host_quality.get(host, {}).get("alive")
IsCandidate(url) ==
    /\ HostOf(url) # NoHost
    /\ HostOf(url) \in DOMAIN host_quality
    /\ host_quality[HostOf(url)].alive

\* variant: x goes ahead of the elements equal to it
RECURSIVE InsertAheadOfEqual(_, _)
InsertAheadOfEqual(sorted, x) ==
    IF sorted = << >> THEN << x >>
    ELSE IF Head(sorted).latency < x.latency
         THEN << Head(sorted) >> \o InsertAheadOfEqual(Tail(sorted), x)
         ELSE << x >> \o sorted

\* list.sort(key=latency) is stable: x goes behind every element that is not
\* greater than it
RECURSIVE InsertByLatency(_, _)
InsertByLatency(sorted, x) ==
    IF sorted = << >> THEN << x >>
    ELSE IF Head(sorted).latency <= x.latency
         THEN << Head(sorted) >> \o InsertByLatency(Tail(sorted), x)
         ELSE << x >> \o sorted

\* variant: the candidates stay in playlist order
KeepListOrder(cands) == cands

RECURSIVE SortByLatency(_)
SortByLatency(cands) ==
    IF cands = << >> THEN << >>
    ELSE InsertByLatency(SortByLatency(SubSeq(cands, 1, Len(cands) - 1)),
                         cands[Len(cands)])

\* the candidates of one channel, sorted
CandidatesOf(items) ==
    LET live == SelectSeq(items, LAMBDA it : IsCandidate(it.url))
    IN  SortByLatency([j \in 1..Len(live) |->
                         [url |-> live[j].url,
                          latency |-> host_quality[HostOf(live[j].url)].latency,
                          original_name |-> live[j].original_name]])

\* channel_to_candidates: only channels with at least one candidate
RECURSIVE ChannelToCandidates(_)
ChannelToCandidates(channels) ==
    IF channels = << >> THEN << >>
    ELSE (IF CandidatesOf(Head(channels).items) # << >>
          THEN << [name |-> Head(channels).name,
                   cands |-> CandidatesOf(Head(channels).items)] >>
          ELSE << >>) \o ChannelToCandidates(Tail(channels))

\* test_hosts_two_phase has returned (its locals are gone); build_final_playlist
\* is called and runs its first loop
BuildCandidates ==
    /\ pc = "done"
    /\ channel_to_candidates' = ChannelToCandidates(grouped)
    /\ bp_pc' = [ch |-> 1, cand |-> 1, inflight |-> FALSE]
    /\ pc' = "confirm"
    /\ p1_status' = << >>
    /\ p1_result' = << >>
    /\ initial_results' = << >>
    /\ hosts_to_retry' = << >>
    /\ fb_status' = << >>
    /\ fb_i' = << >>
    /\ fb_res' = << >>
    /\ fb_result' = << >>
    /\ UNCHANGED <<host_to_urls, host_quality, probe_log, write_log, mock,
                   grouped, url_to_host, final_channels, confirm_log, report,
                   proberVars, auxVars>>

\* test_single_stream(cand["url"]) is called
ConfirmStart ==
    /\ pc = "confirm"
    /\ bp_pc.ch <= Len(channel_to_candidates)
    /\ ~bp_pc.inflight
    /\ bp_pc' = [bp_pc EXCEPT !.inflight = TRUE]
    /\ UNCHANGED <<host_to_urls, pc, p1_status, p1_result, initial_results,
                   host_quality, hosts_to_retry, fb_status, fb_i, fb_res,
                   fb_result, probe_log, write_log, mock, grouped, url_to_host,
                   channel_to_candidates, final_channels, confirm_log, report,
                   proberVars, auxVars>>

\* variant: the first candidate of the list is taken, whichever one passed
SelectedHead(clean_name, cand) ==
    LET first == channel_to_candidates[bp_pc.ch].cands[1]
    IN  [channel |-> clean_name, original_name |-> first.original_name, url |-> first.url]

\* selected = {"channel", "original_name", "url"}
Selected(clean_name, cand) ==
    [channel |-> clean_name, original_name |-> cand.original_name, url |-> cand.url]

\* test_single_stream returns: select and break, try the next candidate, or
\* give the channel up
ConfirmReturn ==
    /\ pc = "confirm"
    /\ bp_pc.inflight
    /\ LET entry == channel_to_candidates[bp_pc.ch]
           cand == entry.cands[bp_pc.cand]
       IN  \E ok \in BOOLEAN :
             /\ confirm_log' = Append(confirm_log,
                                      [channel |-> entry.name, url |-> cand.url, ok |-> ok])
             /\ IF ok
                THEN /\ final_channels' = Append(final_channels, Selected(entry.name, cand))
                     /\ bp_pc' = [ch |-> bp_pc.ch + 1, cand |-> 1, inflight |-> FALSE]
                ELSE /\ UNCHANGED final_channels
                     /\ bp_pc' = IF bp_pc.cand < Len(entry.cands)
                                 THEN [bp_pc EXCEPT !.cand = @ + 1, !.inflight = FALSE]
                                 ELSE [ch |-> bp_pc.ch + 1, cand |-> 1, inflight |-> FALSE]
    /\ UNCHANGED <<host_to_urls, pc, p1_status, p1_result, initial_results,
                   host_quality, hosts_to_retry, fb_status, fb_i, fb_res,
                   fb_result, probe_log, write_log, mock, grouped, url_to_host,
                   channel_to_candidates, report, proberVars, auxVars>>

\* return final_channels
PlaylistReturn ==
    /\ pc = "confirm"
    /\ bp_pc.ch > Len(channel_to_candidates)
    /\ pc' = "built"
    /\ UNCHANGED <<host_to_urls, p1_status, p1_result, initial_results,
                   host_quality, hosts_to_retry, fb_status, fb_i, fb_res,
                   fb_result, probe_log, write_log, mock, playlistVars, proberVars, auxVars>>

(***************************************************************************)
(* generate_outputs_and_notify: the two channel lists of the report        *)
(***************************************************************************)
\* all_expected_channels = set(grouped.keys())
AllExpectedChannels == {grouped[j].name : j \in 1..Len(grouped)}

\* available_set = {item["channel"] for item in final_channels}
AvailableSet == {final_channels[j].channel : j \in 1..Len(final_channels)}

\* variant: only the channels that had no candidate at all
UnavailableNoCandidates ==
    AllExpectedChannels \ {channel_to_candidates[j].name : j \in 1..Len(channel_to_candidates)}

\* unavailable_channels = sorted(all_expected_channels - available_set)
UnavailableChannels == AllExpectedChannels \ AvailableSet

GenerateReport ==
    /\ pc = "built"
    /\ report' = [available |-> AvailableSet, unavailable |-> UnavailableChannels]
    /\ pc' = "end"
    /\ UNCHANGED <<host_to_urls, p1_status, p1_result, initial_results,
                   host_quality, hosts_to_retry, fb_status, fb_i, fb_res,
                   fb_result, probe_log, write_log, mock, grouped, url_to_host,
                   channel_to_candidates, final_channels, bp_pc, confirm_log,
                   proberVars, auxVars>>

NextMain ==
    \/ \E f \in DOMAIN p1_status : Phase1Start(f)
    \/ \E f \in DOMAIN p1_status : Phase1Probe(f)
    \/ \E f \in DOMAIN p1_status : Phase1Collect(f)
    \/ Phase2Build
    \/ \E f \in DOMAIN fb_status : FallbackStart(f)
    \/ \E f \in DOMAIN fb_status : FallbackProbe(f)
    \/ \E f \in DOMAIN fb_status : FallbackRecheck(f)
    \/ \E f \in DOMAIN fb_status : FallbackCollect(f)
    \/ Finish
    \/ BuildCandidates
    \/ ConfirmStart
    \/ ConfirmReturn
    \/ PlaylistReturn
    \/ GenerateReport

SpecMain == InitMain /\ [][NextMain]_vars

(***************************************************************************)
(* Vocabulary of the properties                                            *)
(***************************************************************************)
\* the URL list of an endpoint (empty for an endpoint that is not in the input)
UrlsOf(h) == IF h \in DOMAIN host_to_urls THEN host_to_urls[h] ELSE << >>

\* the representative of an input endpoint
Representative(h) == RepUrl(UrlsOf(h))

\* the URLs of an endpoint other than its representative, in list order
Alternates(h) == SelectSeq(UrlsOf(h), LAMBDA u : u # Representative(h))

\* the probes of phase 2 issued against endpoint h, in the order issued
Phase2Probes(h) == SelectSeq(probe_log[h], LAMBDA e : e.phase # "p1")

\* the probes the loop of fallback_test issued against endpoint h
LoopProbes(h) == SelectSeq(probe_log[h], LAMBDA e : e.phase = "loop")

\* the phase-1 probe of h was collected and was not alive
RepFailed(h) == h \in DOMAIN initial_results /\ ~initial_results[h].alive

\* the phase-1 probe of h was collected and was alive
RepAlive(h) == h \in DOMAIN initial_results /\ initial_results[h].alive

SeqRange(s) == {s[j] : j \in 1..Len(s)}

(***************************************************************************)
(* C1: the returned map has exactly the input endpoints as keys, and every *)
(* record has trials >= 1.                                                 *)
(***************************************************************************)
C1_TotalOverKeys ==
    /\ DOMAIN host_quality \subseteq DOMAIN host_to_urls
    /\ pc = "done" => DOMAIN host_quality = DOMAIN host_to_urls
    /\ \A h \in DOMAIN host_quality : host_quality[h].trials >= 1

C1_Witness ==
    /\ pc = "done"
    /\ DOMAIN host_to_urls = Hosts
    /\ \E h \in Hosts : host_to_urls[h] = << >>
    /\ \E h \in Hosts : host_quality[h].trials = 4

(***************************************************************************)
(* C2: each key of host_quality is assigned exactly once in a run, by the  *)
(* task of that endpoint; a phase-1 record is never replaced.              *)
(***************************************************************************)
C2_WrittenOnce ==
    \A h \in Hosts :
        /\ Len(write_log[h]) <= 1
        /\ (h \in DOMAIN host_quality) <=> (Len(write_log[h]) = 1)
        /\ \A j \in 1..Len(write_log[h]) : write_log[h][j].by = h
        /\ (pc = "done" /\ h \in DOMAIN host_to_urls) => Len(write_log[h]) = 1

C2_Witness ==
    /\ pc = "done"
    /\ \E h \in Hosts : write_log[h] = << [by |-> h, src |-> "phase1"] >>
    /\ \E h \in Hosts : write_log[h] = << [by |-> h, src |-> "phase2"] >>

(***************************************************************************)
(* C3: an endpoint whose phase-1 probe returned alive ends with the record *)
(* alive, trials 1, its representative, and that probe's latency.          *)
(***************************************************************************)
C3_RepAliveRecord ==
    \A h \in Hosts :
        RepAlive(h) =>
            /\ h \in DOMAIN host_quality
            /\ host_quality[h].alive
            /\ host_quality[h].trials = 1
            /\ host_quality[h].representative_url = Representative(h)
            /\ host_quality[h].latency = initial_results[h].latency

C3_Witness ==
    /\ pc = "done"
    /\ \E h \in Hosts :
          /\ RepAlive(h)
          /\ Len(host_to_urls[h]) > 1
          /\ Representative(h) # host_to_urls[h][1]

(***************************************************************************)
(* C4: representative failed and no other URL: the record is dead,         *)
(* "no_fallback", trials 1, and the endpoint was probed once only.         *)
(***************************************************************************)
C4_NoFallback ==
    pc # "phase1" =>
        \A h \in DOMAIN host_to_urls :
            (RepFailed(h) /\ Alternates(h) = << >>) =>
                /\ h \in DOMAIN host_quality
                /\ ~host_quality[h].alive
                /\ host_quality[h].type = "no_fallback"
                /\ host_quality[h].trials = 1
                /\ Len(probe_log[h]) = 1

C4_Witness ==
    /\ pc = "done"
    /\ \E h \in DOMAIN host_to_urls :
          /\ RepFailed(h)
          /\ Alternates(h) = << >>
          /\ host_quality[h].type = "no_fallback"

(***************************************************************************)
(* C5: the loop of a fallback chain probes the alternates in list order,   *)
(* each one only after the previous verdict was not alive, and nothing is  *)
(* probed on the endpoint after an alive verdict.                          *)
(***************************************************************************)
C5_SequentialChain ==
    \A h \in Hosts :
        LET loop == LoopProbes(h)
            all2 == Phase2Probes(h)
            alts == Alternates(h)
        IN  /\ Len(loop) <= Len(alts)
            /\ \A j \in 1..Len(loop) : loop[j].url = alts[j]
            /\ \A j \in 1..Len(all2) : j < Len(all2) => ~all2[j].alive

C5_Witness ==
    \E f \in DOMAIN fb_status :
        /\ fb_status[f] = "collected"
        /\ Len(LoopProbes(hosts_to_retry[f].host)) = 3
        /\ LoopProbes(hosts_to_retry[f].host)[3].alive

(***************************************************************************)
(* C6: representative failed and the k-th alternate is the first alive:    *)
(* the record is alive, trials 1 + k, with latency and representative_url  *)
(* of that alternate.                                                      *)
(***************************************************************************)
C6_FirstAliveAlternate ==
    \A f \in DOMAIN fb_status :
        LET h == hosts_to_retry[f].host
            k == Len(LoopProbes(h))
        IN  (fb_status[f] = "collected" /\ k > 0 /\ LoopProbes(h)[k].alive) =>
                /\ RepFailed(h)
                /\ k <= 3
                /\ host_quality[h].alive
                /\ host_quality[h].trials = 1 + k
                /\ host_quality[h].latency = fb_res[f].latency
                /\ host_quality[h].representative_url = Alternates(h)[k]

C6_Witness ==
    \E f \in DOMAIN fb_status :
        /\ fb_status[f] = "collected"
        /\ Len(LoopProbes(hosts_to_retry[f].host)) = 2
        /\ LoopProbes(hosts_to_retry[f].host)[2].alive
        /\ host_quality[hosts_to_retry[f].host].trials = 3

(***************************************************************************)
(* C7: all n alternates failed: the record is dead with trials 1 + n and   *)
(* carries the latency and type of the verdict the chain obtained for the  *)
(* last alternate.                                                         *)
(***************************************************************************)
C7_KeepsLastVerdict ==
    \A f \in DOMAIN fb_status :
        LET h == hosts_to_retry[f].host
        IN  (fb_status[f] = "collected" /\ ~fb_result[f].success) =>
                /\ ~host_quality[h].alive
                /\ host_quality[h].trials = 1 + Len(hosts_to_retry[f].cands)
                /\ host_quality[h].latency = fb_res[f].latency
                /\ host_quality[h].type = fb_res[f].type

(***************************************************************************)
(* C8: phase 2 probes at most 3 alternate URLs of an endpoint, the first   *)
(* three URLs of its list other than the representative, in list order,    *)
(* and never the representative.                                           *)
(***************************************************************************)
C8_AtMostThreeAlternates ==
    \A h \in Hosts :
        LET loop == LoopProbes(h)
            alts == Alternates(h)
            probed == {e.url : e \in SeqRange(Phase2Probes(h))}
        IN  /\ Cardinality(probed) <= 3
            /\ probed \subseteq {alts[j] : j \in 1..Min(3, Len(alts))}
            /\ \A j \in 1..Len(loop) : loop[j].url = alts[j]
            /\ Representative(h) \notin probed

C8_Witness ==
    \E h \in DOMAIN host_to_urls :
        /\ pc = "done"
        /\ Len(Alternates(h)) = 4
        /\ Representative(h) = host_to_urls[h][3]
        /\ Len(LoopProbes(h)) = 3
        /\ Len(Phase2Probes(h)) = 4

(***************************************************************************)
(* C9: an endpoint is recorded dead only when every probe issued against   *)
(* its URLs returned not alive.                                            *)
(***************************************************************************)
C9_DeadOnlyIfAllProbesFailed ==
    \A h \in DOMAIN host_quality :
        ~host_quality[h].alive =>
            \A j \in 1..Len(probe_log[h]) : ~probe_log[h][j].alive

(***************************************************************************)
(* C10: no fallback probe starts before every phase-1 probe has completed  *)
(* and was collected; the endpoints entering phase 2 are exactly those     *)
(* without an alive phase-1 verdict.                                       *)
(***************************************************************************)
C10_PhaseBarrier ==
    /\ ( \/ \E f \in DOMAIN fb_status : fb_status[f] # "queued"
         \/ \E h \in Hosts : Phase2Probes(h) # << >> )
       => \A f \in DOMAIN p1_status : p1_status[f] = "collected"
    /\ pc # "phase1" =>
         {hosts_to_retry[f].host : f \in DOMAIN hosts_to_retry}
           \cup {h \in Hosts : \E j \in 1..Len(write_log[h]) :
                                  write_log[h][j].src = "no_fallback"}
         = {h \in DOMAIN host_to_urls : ~RepAlive(h)}

C10_Witness ==
    /\ pc = "phase2"
    /\ Len(future_to_host) = 2
    /\ \E f \in DOMAIN fb_status : fb_status[f] = "running" /\ fb_i[f] = 1
    /\ \E h \in Hosts : RepAlive(h)

(***************************************************************************)
(* The record a list of URLs gets from a backend with one verdict per URL  *)
(***************************************************************************)
\* the verdict the mocked backend gave for a URL
VerdictOf(u) == IF u \in DOMAIN mock.verdict THEN mock.verdict[u] ELSE NoVerdict

\* index of the first alive URL of a sequence, 0 if none
RECURSIVE FirstAlive(_, _)
FirstAlive(urls, j) ==
    IF j > Len(urls) THEN 0
    ELSE IF VerdictOf(urls[j]).alive THEN j
    ELSE FirstAlive(urls, j + 1)

ExpectedRecord(urls) ==
    LET rep == IF urls = << >> THEN None
               ELSE IF \E j \in 1..Len(urls) : urls[j].ext \in {".m3u8", ".m3u"}
                    THEN urls[CHOOSE j \in 1..Len(urls) :
                                /\ urls[j].ext \in {".m3u8", ".m3u"}
                                /\ \A i \in 1..(j - 1) : urls[i].ext \notin {".m3u8", ".m3u"}]
                    ELSE urls[1]
        others == SelectSeq(urls, LAMBDA u : u # rep)
        alts == SubSeq(others, 1, Min(3, Len(others)))
        k == FirstAlive(alts, 1)
    IN  IF urls # << >> /\ VerdictOf(rep).alive
        THEN [alive |-> TRUE, latency |-> VerdictOf(rep).latency,
              type |-> VerdictOf(rep).type, representative_url |-> rep, trials |-> 1]
        ELSE IF alts = << >>
        THEN [alive |-> FALSE, latency |-> 999, type |-> "no_fallback",
              representative_url |-> rep, trials |-> 1]
        ELSE IF k > 0
        THEN [alive |-> TRUE, latency |-> VerdictOf(alts[k]).latency,
              type |-> VerdictOf(alts[k]).type, representative_url |-> alts[k],
              trials |-> 1 + k]
        ELSE [alive |-> FALSE, latency |-> VerdictOf(alts[Len(alts)]).latency,
              type |-> VerdictOf(alts[Len(alts)]).type, representative_url |-> rep,
              trials |-> 1 + Len(alts)]

(***************************************************************************)
(* C12: the record of an endpoint is a function of its own URL list and of *)
(* the verdicts of its own URLs: whatever the other endpoints' lists and   *)
(* verdicts are and in whatever order probes complete, once an endpoint    *)
(* has a record it is the record its own list and verdicts determine.      *)
(***************************************************************************)
C12_OwnDataOnly ==
    \A h \in DOMAIN host_quality :
        host_quality[h] = ExpectedRecord(host_to_urls[h])

C12_Witness ==
    /\ mock.fixed
    /\ pc = "phase2"
    /\ DOMAIN host_to_urls = Hosts
    /\ \E h \in Hosts : /\ h \in DOMAIN host_quality
                        /\ host_quality[h].trials = 3
    /\ \E h \in Hosts : /\ h \notin DOMAIN host_quality
                        /\ Len(LoopProbes(h)) = 1

(***************************************************************************)
(* C13: against a backend with a fixed verdict per URL the returned map is *)
(* determined by the input: every run on the same input ends with the same *)
(* records, whatever the order in which the probes complete.               *)
(***************************************************************************)
C13_Idempotent ==
    pc = "done" =>
        host_quality = [h \in DOMAIN host_to_urls |-> ExpectedRecord(host_to_urls[h])]

C13_Witness ==
    /\ mock.fixed
    /\ pc = "done"
    /\ DOMAIN host_to_urls = Hosts
    /\ \A h \in Hosts : Len(probe_log[h]) >= 3
    /\ \E h \in Hosts : host_quality[h].alive
    /\ \E h \in Hosts : ~host_quality[h].alive

(***************************************************************************)
(* Properties of the pipeline (SpecMain)                                   *)
(***************************************************************************)
\* probes in flight: phase-1 probes, phase-2 chains, confirmatory probes
InFlight ==
    Cardinality(Running(p1_status)) + Cardinality(Running(fb_status))
        + (IF bp_pc.inflight THEN 1 ELSE 0)

\* C11: at every moment the number of probes in flight, counting phase-1
\* probes, phase-2 fallback chains and confirmatory probes together, is at
\* most MAX_WORKERS; only one of the three stages has probes in flight at a
\* time, so no further pool of probes exists.
C11_PoolBound ==
    /\ InFlight <= MAX_WORKERS
    /\ Running(p1_status) # {} => (Running(fb_status) = {} /\ ~bp_pc.inflight)
    /\ Running(fb_status) # {} => ~bp_pc.inflight

C11_Witness ==
    /\ Cardinality(Running(fb_status)) = MAX_WORKERS
    /\ \E f \in DOMAIN fb_status : fb_status[f] = "queued"

\* the confirmatory probes of one channel, in the order they were made
ProbesOf(c) == SelectSeq(confirm_log, LAMBDA e : e.channel = c)

\* the endpoint of a URL is known, has a record, and the record says alive
LiveEndpoint(u) ==
    /\ u \in DOMAIN url_to_host
    /\ url_to_host[u] \in DOMAIN host_quality
    /\ host_quality[url_to_host[u]].alive

\* C14: build_final_playlist never probes and never selects a URL whose
\* endpoint is recorded dead, has no record, or has no endpoint mapping.
C14_OnlyLiveEndpoints ==
    /\ \A j \in 1..Len(confirm_log) : LiveEndpoint(confirm_log[j].url)
    /\ \A j \in 1..Len(final_channels) : LiveEndpoint(final_channels[j].url)
    /\ \A j \in 1..Len(channel_to_candidates) :
         \A k \in 1..Len(channel_to_candidates[j].cands) :
            LiveEndpoint(channel_to_candidates[j].cands[k].url)

C14_Witness ==
    /\ pc = "end"
    /\ Len(confirm_log) >= 3
    /\ \E h \in DOMAIN host_quality : ~host_quality[h].alive
    /\ \E j \in 1..Len(grouped) : \E k \in 1..Len(grouped[j].items) :
          /\ grouped[j].items[k].url \notin DOMAIN url_to_host
          /\ Len(ProbesOf(grouped[j].name)) >= 2

\* the latency recorded for the endpoint of a URL
LatencyOf(u) == host_quality[url_to_host[u]].latency

\* the URLs of channel c in grouped whose endpoint is alive
LiveUrlsOf(c) ==
    UNION { {grouped[j].items[k].url : k \in {m \in 1..Len(grouped[j].items) :
                                                 LiveEndpoint(grouped[j].items[m].url)}} :
            j \in {n \in 1..Len(grouped) : grouped[n].name = c} }

\* the channels whose confirmation loop is over
Confirmed ==
    IF pc \in {"confirm", "built", "end"}
    THEN {channel_to_candidates[j].name :
            j \in {n \in 1..Len(channel_to_candidates) : n < bp_pc.ch}}
    ELSE {}

\* C15: the confirmatory probes of a channel go in ascending order of
\* endpoint latency; the first candidate that passes is the one selected,
\* every candidate probed before it failed, every candidate with a smaller
\* latency was probed, and no candidate is probed after it.
C15_AscendingLatencyFirstPass ==
    \A c \in Confirmed :
        LET probes == ProbesOf(c)
            n == Len(probes)
            probed == {probes[j].url : j \in 1..n}
            chosen == {final_channels[j].url :
                         j \in {m \in 1..Len(final_channels) : final_channels[m].channel = c}}
        IN  /\ n >= 1
            /\ \A j \in 1..(n - 1) : LatencyOf(probes[j].url) <= LatencyOf(probes[j + 1].url)
            /\ \A j \in 1..(n - 1) : ~probes[j].ok
            /\ probed \subseteq LiveUrlsOf(c)
            /\ IF probes[n].ok
               THEN /\ chosen = {probes[n].url}
                    /\ \A u \in LiveUrlsOf(c) \ probed :
                          LatencyOf(u) >= LatencyOf(probes[n].url)
               ELSE /\ chosen = {}
                    /\ probed = LiveUrlsOf(c)

\* endpoint a dead, endpoint c faster than endpoint b: the candidate of c is
\* probed first and fails, the candidate of b passes and is selected
C15_Witness ==
    /\ "X" \in Confirmed
    /\ ~host_quality["a.test:80"].alive
    /\ host_quality["b.test:80"].alive /\ host_quality["c.test:80"].alive
    /\ host_quality["c.test:80"].latency < host_quality["b.test:80"].latency
    /\ Len(ProbesOf("X")) = 2
    /\ ProbesOf("X")[1].url.host = "c.test:80" /\ ~ProbesOf("X")[1].ok
    /\ ProbesOf("X")[2].url.host = "b.test:80" /\ ProbesOf("X")[2].ok
    /\ \E j \in 1..Len(final_channels) :
          final_channels[j].channel = "X" /\ final_channels[j].url.host = "b.test:80"

\* the channels of grouped, and those with a confirmatory probe that passed
ChannelNames == {grouped[j].name : j \in 1..Len(grouped)}
Passed == {confirm_log[j].channel : j \in {m \in 1..Len(confirm_log) : confirm_log[m].ok}}

\* C16: a channel none of whose candidates passed is absent from the final
\* selection and listed among the channels without a valid source; the run
\* goes on to the report, where every grouped channel is in exactly one of
\* the two lists.
C16_ReportPartition ==
    /\ \A j \in 1..Len(final_channels) : final_channels[j].channel \in Passed
    /\ pc = "end" =>
         /\ report.available \cap report.unavailable = {}
         /\ report.available \cup report.unavailable = ChannelNames
         /\ report.available = Passed
         /\ report.available = {final_channels[j].channel : j \in 1..Len(final_channels)}

C16_Witness ==
    /\ pc = "end"
    /\ Len(ProbesOf("Y")) = 3
    /\ "Y" \in report.unavailable
    /\ "Z" \in report.unavailable
    /\ "X" \in report.available

(***************************************************************************)
(* is_valid_hls_stream and test_single_stream, step by step                *)
(***************************************************************************)
HTTP_OK == 200
M3U_HEADER == "#EXTM3U"

\* bytes are read in chunks until more than PrefixLimit chunks' worth is held
\* (chunks of 512 bytes, more than 2048 bytes, in the code)
PrefixLimit == 2

\* the pieces a response body is made of; InvalidByte is not valid UTF-8
InvalidByte == "<ff>"
Whitespace == {" "}
Chunks == {" ", "#EXTM3U", "#EXTINF", "#EXT-X-STREAM-INF", ".ts", ".TS", "x", InvalidByte}

\* status codes a server may answer with
Statuses == {200, 204, 206, 301, 302, 307, 404}

\* the outcome of a request: a response, an exception, or not made
Response(status) == [kind |-> "response", status |-> status]
Responses == {Response(n) : n \in Statuses}
Raised == [kind |-> "raised", status |-> 0]
NotIssued == [kind |-> "not issued", status |-> 0]

\* how a tool can be installed: FileNotFoundError when absent, a nonzero exit
\* of its version command when broken
ToolStates == {"present", "absent", "broken", "noexec"}

\* ways a run of ffprobe can end
FfprobeRuns == {"audio_video", "no_streams", "nonzero", "timeout"}
\* ways the frame grab and the OCR can end
OcrRuns == {"clean", "blacklisted_word", "no_frame", "timeout"}

\* time.time() - start
Elapsed == {1, 2}

ProbeFunctions == {"is_valid_hls_stream", "test_single_stream"}
ProbeUrls == {[host |-> "a.test:80", idx |-> 1, ext |-> e] : e \in {".m3u8", ".m3u", ".ts"}}

\* content.decode('utf-8', errors='ignore')
Decode(content) == SelectSeq(content, LAMBDA b : b # InvalidByte)

\* str.strip()
RECURSIVE LStrip(_)
LStrip(text) ==
    IF text # << >> /\ Head(text) \in Whitespace THEN LStrip(Tail(text)) ELSE text

RECURSIVE RStrip(_)
RStrip(text) ==
    IF text # << >> /\ text[Len(text)] \in Whitespace
    THEN RStrip(SubSeq(text, 1, Len(text) - 1))
    ELSE text

Strip(text) == RStrip(LStrip(text))

\* str.startswith(k), k in text
StartsWith(text, k) == text # << >> /\ text[1] = k
Contains(text, k) == \E j \in 1..Len(text) : text[j] = k

\* str.lower()
LowerPiece(b) ==
    CASE b = ".TS" -> ".ts"
      [] b = "#EXTM3U" -> "#extm3u"
      [] b = "#EXTINF" -> "#extinf"
      [] b = "#EXT-X-STREAM-INF" -> "#ext-x-stream-inf"
      [] OTHER -> b
Lower(text) == [j \in 1..Len(text) |-> LowerPiece(text[j])]

\* variant: the header marker anywhere in the text
is_valid_hls_content_anywhere(text) ==
    /\ Contains(text, M3U_HEADER)
    /\ \E k \in {"#EXTINF", "#EXT-X-STREAM-INF"} : Contains(text, k)

is_valid_hls_content(text) ==
    LET txt == Strip(text)
    IN  /\ StartsWith(txt, M3U_HEADER)
        /\ \E k \in {"#EXTINF", "#EXT-X-STREAM-INF"} : Contains(txt, k)

\* stream_type
StreamType(text) ==
    IF Contains(text, "#EXT-X-STREAM-INF") THEN "master"
    ELSE IF Contains(Lower(text), ".ts") THEN "media"
    ELSE "hls"

\* h.status_code in (Config.HTTP_OK, 206, 301, 302)
HeadPasses(status) == status \in {HTTP_OK, 206, 301, 302}

\* the tool is installed and answers its version command
Available(state) == state = "present"

\* subprocess.run raises an OSError that is not FileNotFoundError, which the
\* availability check does not catch
ToolRaises(state) == state = "noexec"

\* what the prober gives back
Return(v) == [kind |-> "return", value |-> v]

\* the verdict dictionaries of is_valid_hls_stream
Verdict(alive, latency, type, reason) ==
    [alive |-> alive, latency |-> latency, type |-> type, reason |-> reason]

\* variant: the exception leaves the function
Propagates(fn, latency) == [kind |-> "raise", value |-> "exception"]

\* except Exception: the error verdict, respectively False
Caught(fn, latency) ==
    IF fn = "is_valid_hls_stream"
    THEN Return(Verdict(FALSE, latency, "error", "exception"))
    ELSE Return(FALSE)

\* a non-200 GET
GetRefused(fn, latency) ==
    IF fn = "is_valid_hls_stream"
    THEN Return(Verdict(FALSE, latency, "dead", "GET"))
    ELSE Return(FALSE)

\* the text is no manifest
NotManifest(fn, latency) ==
    IF fn = "is_valid_hls_stream"
    THEN Return(Verdict(FALSE, latency, "not_hls", "Not valid M3U8"))
    ELSE Return(FALSE)

\* the result before deep validation
Passed200(fn, latency, text) ==
    IF fn = "is_valid_hls_stream"
    THEN Return(Verdict(TRUE, latency, StreamType(text), "OK"))
    ELSE Return(TRUE)

NoIo == [head |-> NotIssued, get |-> NotIssued, content |-> << >>,
         read |-> "none", validator |-> "none", latency |-> 0]

NoOut == [kind |-> "none"]

testerVars == <<host_to_urls, pc, p1_status, p1_result, initial_results,
                host_quality, hosts_to_retry, fb_status, fb_i, fb_res, fb_result,
                probe_log, write_log, mock>>

\* a call of one of the two probers on one URL
InitProber ==
    /\ host_to_urls = << >>
    /\ TesterStart
    /\ mock = [fixed |-> FALSE, verdict |-> << >>]
    /\ PlaylistIdle
    /\ \E fn \in ProbeFunctions, url \in ProbeUrls :
         /\ pr_env = [fn |-> fn, url |-> url, tools |-> << >>]
         /\ pr_pc = IF fn = "is_valid_hls_stream" THEN "head" ELSE "get"
    /\ pr_io = NoIo
    /\ pr_out = NoOut
    /\ AuxIdle

\* requests.head(...) and the test of its status
HeadRequest ==
    /\ pr_pc = "head"
    /\ \E outcome \in Responses \cup {Raised}, t \in Elapsed :
         /\ pr_io' = [pr_io EXCEPT !.head = outcome]
         /\ IF outcome # Raised /\ ~HeadPasses(outcome.status)
            THEN /\ pr_out' = Return(Verdict(FALSE, t, "dead", "HEAD"))
                 /\ pr_pc' = "returned"
            ELSE /\ pr_pc' = "get"
                 /\ UNCHANGED pr_out
    /\ UNCHANGED <<pr_env, testerVars, playlistVars, auxVars>>

\* requests.get(..., stream=True) and the test of its status
GetRequest ==
    /\ pr_pc = "get"
    /\ \E outcome \in Responses \cup {Raised}, t \in Elapsed :
         /\ pr_io' = [pr_io EXCEPT !.get = outcome]
         /\ IF outcome = Raised
            THEN /\ pr_out' = Caught(pr_env.fn, t)
                 /\ pr_pc' = "returned"
            ELSE IF outcome.status # HTTP_OK
            THEN /\ pr_out' = GetRefused(pr_env.fn, t)
                 /\ pr_pc' = "returned"
            ELSE /\ pr_pc' = "read"
                 /\ UNCHANGED pr_out
    /\ UNCHANGED <<pr_env, testerVars, playlistVars, auxVars>>

\* one round of: for chunk in r.iter_content(512)
ReadChunk ==
    /\ pr_pc = "read"
    /\ \E chunk \in Chunks :
         /\ pr_io' = [pr_io EXCEPT !.content = Append(@, chunk),
                                   !.read = IF Len(pr_io.content) + 1 > PrefixLimit
                                            THEN "break" ELSE "none"]
         /\ pr_pc' = IF Len(pr_io.content) + 1 > PrefixLimit THEN "classify" ELSE "read"
    /\ UNCHANGED <<pr_env, pr_out, testerVars, playlistVars, auxVars>>

\* the body ends
ReadEnd ==
    /\ pr_pc = "read"
    /\ pr_io' = [pr_io EXCEPT !.read = "end"]
    /\ pr_pc' = "classify"
    /\ UNCHANGED <<pr_env, pr_out, testerVars, playlistVars, auxVars>>

\* the connection breaks while the body is read
ReadRaises ==
    /\ pr_pc = "read"
    /\ \E t \in Elapsed :
         /\ pr_io' = [pr_io EXCEPT !.read = "raised"]
         /\ pr_out' = Caught(pr_env.fn, t)
    /\ pr_pc' = "returned"
    /\ UNCHANGED <<pr_env, testerVars, playlistVars, auxVars>>

\* decode, is_valid_hls_content, stream type, and the test of the extension
Classify ==
    /\ pr_pc = "classify"
    /\ \E t \in Elapsed :
         LET text == Decode(pr_io.content)
         IN  /\ pr_io' = [pr_io EXCEPT !.latency = t]
             /\ IF ~is_valid_hls_content(text)
                THEN /\ pr_out' = NotManifest(pr_env.fn, t)
                     /\ pr_pc' = "returned"
                ELSE /\ pr_out' = Passed200(pr_env.fn, t, text)
                     /\ pr_pc' = IF EndsWithHls(pr_env.url) THEN "returned" ELSE "available"
    /\ UNCHANGED <<pr_env, testerVars, playlistVars, auxVars>>

\* is_ffmpeg_available(): ffprobe -version
IsFfmpegAvailable ==
    /\ pr_pc = "available"
    /\ pr_env.fn = "is_valid_hls_stream"
    /\ \E ffprobe \in ToolStates, t \in Elapsed :
         /\ pr_env' = [pr_env EXCEPT !.tools = Put(@, "ffprobe", ffprobe)]
         /\ pr_pc' = IF Available(ffprobe) THEN "validate" ELSE "returned"
         /\ pr_out' = IF ToolRaises(ffprobe) THEN Caught(pr_env.fn, t) ELSE pr_out
    /\ UNCHANGED <<pr_io, testerVars, playlistVars, auxVars>>

\* is_ocr_available(): the imports and tesseract -v; ffmpeg is not asked for
OcrTools(python_ocr, tesseract) ==
    python_ocr /\ Available(tesseract)

IsOcrAvailable ==
    /\ pr_pc = "available"
    /\ pr_env.fn = "test_single_stream"
    /\ \E python_ocr \in BOOLEAN, tesseract \in ToolStates, ffmpeg \in ToolStates :
         /\ pr_env' = [pr_env EXCEPT !.tools =
                          [tool \in {"python_ocr", "tesseract", "ffmpeg"} |->
                              CASE tool = "python_ocr" ->
                                       IF python_ocr THEN "present" ELSE "absent"
                                [] tool = "tesseract" -> tesseract
                                [] tool = "ffmpeg" -> ffmpeg]]
         /\ pr_pc' = IF OcrTools(python_ocr, tesseract)
                     THEN "validate" ELSE "returned"
         /\ pr_out' = IF python_ocr /\ ToolRaises(tesseract)
                      THEN Caught(pr_env.fn, 0) ELSE pr_out
    /\ UNCHANGED <<pr_io, testerVars, playlistVars, auxVars>>

\* run_ffprobe(url, timeout=8)
RunFfprobe ==
    /\ pr_pc = "validate"
    /\ pr_env.fn = "is_valid_hls_stream"
    /\ \E run \in FfprobeRuns :
         /\ pr_io' = [pr_io EXCEPT !.validator = run]
         /\ pr_out' = IF run = "audio_video"
                      THEN pr_out
                      ELSE Return([pr_out.value EXCEPT !.alive = FALSE,
                                      !.reason = "FFmpeg validation failed"])
    /\ pr_pc' = "returned"
    /\ UNCHANGED <<pr_env, testerVars, playlistVars, auxVars>>

\* run_ocr_check(url, timeout=15): ffmpeg grabs a frame, pytesseract reads it
RunOcrCheck ==
    /\ pr_pc = "validate"
    /\ pr_env.fn = "test_single_stream"
    /\ IF Available(pr_env.tools["ffmpeg"])
       THEN \E run \in OcrRuns :
               /\ pr_io' = [pr_io EXCEPT !.validator = run]
               /\ pr_out' = Return(run = "clean")
       ELSE /\ pr_io' = [pr_io EXCEPT !.validator = "no_ffmpeg"]
            /\ pr_out' = Return(FALSE)
    /\ pr_pc' = "returned"
    /\ UNCHANGED <<pr_env, testerVars, playlistVars, auxVars>>

NextProber ==
    \/ HeadRequest
    \/ GetRequest
    \/ ReadChunk
    \/ ReadEnd
    \/ ReadRaises
    \/ Classify
    \/ IsFfmpegAvailable
    \/ IsOcrAvailable
    \/ RunFfprobe
    \/ RunOcrCheck

SpecProber == InitProber /\ [][NextProber]_vars

(***************************************************************************)
(* Properties of the probers (SpecProber)                                  *)
(***************************************************************************)
Returned == pr_pc = "returned"

\* the caller got a value, and the value says alive
AliveOut ==
    /\ pr_out.kind = "return"
    /\ IF pr_env.fn = "is_valid_hls_stream" THEN pr_out.value.alive ELSE pr_out.value

\* the body was read to its end or to the prefix limit, so the text was classified
Classified == pr_io.read \in {"end", "break"} /\ pr_pc # "classify"

\* the fetched prefix holds bytes that are not UTF-8
Undecodable == Contains(pr_io.content, InvalidByte)

\* C17 (as stated): the probers never raise, and every failure of the HEAD
\* request, of the GET request, of the body read or of the decode ends in a
\* returned verdict with alive=false (respectively False).
C17_EveryFailureIsDead ==
    Returned =>
        /\ pr_out.kind = "return"
        /\ (pr_io.head = Raised \/ pr_io.get = Raised \/ pr_io.read = "raised" \/ Undecodable)
              => ~AliveOut

\* C17 (amended): the probers never raise, and every failure of the GET
\* request or of the body read ends in a returned verdict with alive=false
\* and type error (respectively False); a HEAD request that raises and bytes
\* that cannot be decoded do not decide the verdict.
C17_NeverRaises ==
    Returned =>
        /\ pr_out.kind = "return"
        /\ (pr_io.get = Raised \/ pr_io.read = "raised") =>
              /\ ~AliveOut
              /\ pr_env.fn = "is_valid_hls_stream" => pr_out.value.type = "error"

C17_Witness ==
    /\ Returned
    /\ pr_io.head = Raised
    /\ pr_io.read = "raised"
    /\ Undecodable
    /\ pr_out.kind = "return" /\ pr_out.value.type = "error"

\* C18: a URL that passes the status and manifest checks is reported dead only
\* by a deep validator that ran and whose tools are all present.
C18_DowngradeOnlyByPresentTools ==
    (Returned /\ pr_out.kind = "return" /\ pr_io.get = Response(HTTP_OK)
       /\ Classified /\ is_valid_hls_content(Decode(pr_io.content)) /\ ~AliveOut)
    => /\ pr_io.validator \in FfprobeRuns \cup OcrRuns
       /\ \A tool \in DOMAIN pr_env.tools : pr_env.tools[tool] = "present"

\* the status classes the claim names: success (2xx, partial content 206
\* among them) and redirect (3xx)
SuccessOrRedirect(status) == status \in 200..399

\* C19: a HEAD request that raises is followed by the GET, and the verdict is
\* the one the GET, the content and the validator give; the GET is left out
\* only when the HEAD response reports neither success, redirect nor partial
\* content, and the verdict is then alive=false, type dead.
C19_HeadAdvisory ==
    (Returned /\ pr_env.fn = "is_valid_hls_stream") =>
        /\ pr_io.head = Raised =>
              /\ pr_io.get # NotIssued
              /\ pr_out.value.reason # "HEAD"
              /\ AliveOut <=> /\ pr_io.get = Response(200)
                              /\ pr_io.read \in {"end", "break"}
                              /\ pr_out.value.type \in {"master", "media", "hls"}
                              /\ pr_io.validator \in {"none", "audio_video"}
        /\ pr_io.get = NotIssued <=>
              /\ pr_io.head.kind = "response"
              /\ ~SuccessOrRedirect(pr_io.head.status)
        /\ pr_io.get = NotIssued =>
              /\ ~pr_out.value.alive
              /\ pr_out.value.type = "dead"
              /\ pr_out.value.reason = "HEAD"

\* the text holds one of the two format-defining tags
HasTag(text) == \E j \in 1..Len(text) : text[j] \in {"#EXTINF", "#EXT-X-STREAM-INF"}

\* the type the claim gives a valid manifest
SubClass(text) ==
    IF \E j \in 1..Len(text) : text[j] = "#EXT-X-STREAM-INF" THEN "master"
    ELSE IF \E j \in 1..Len(text) : text[j] \in {".ts", ".TS"} THEN "media"
    ELSE "hls"

\* C20 (as stated): the fetched prefix is a valid manifest exactly when it
\* contains the header marker #EXTM3U and at least one of the two tags.
C20_ValidIffContains ==
    (Returned /\ pr_env.fn = "is_valid_hls_stream" /\ Classified) =>
        LET text == SelectSeq(pr_io.content, LAMBDA b : b # InvalidByte)
        IN  pr_out.value.type \in {"master", "media", "hls"}
               <=> ((\E j \in 1..Len(text) : text[j] = "#EXTM3U") /\ HasTag(text))

\* the availability check of the deep validator raised, and the prober
\* returned the verdict of its except branch
AvailabilityRaised ==
    \E tool \in DOMAIN pr_env.tools :
        /\ tool \in {"ffprobe", "tesseract"}
        /\ ToolRaises(pr_env.tools[tool])
        /\ (tool = "tesseract" => pr_env.tools["python_ocr"] = "present")

\* C20 (amended): the fetched prefix is a valid manifest exactly when, leading
\* whitespace aside, it begins with the header marker #EXTM3U and it contains
\* at least one of the two tags; otherwise the verdict is alive=false with
\* type not_hls (False from test_single_stream); a valid manifest is master if
\* it contains the variant-stream tag, else media if it names a .ts segment in
\* either case, else hls.  This is the verdict of the classification: it is
\* the type returned unless the availability check of the deep validator
\* raised afterwards.
C20_ValidIffStartsWith ==
    (Returned /\ Classified /\ ~AvailabilityRaised) =>
        LET text == SelectSeq(pr_io.content, LAMBDA b : b # InvalidByte)
            valid == /\ \E j \in 1..Len(text) :
                           /\ text[j] = "#EXTM3U"
                           /\ \A i \in 1..(j - 1) : text[i] = " "
                     /\ HasTag(text)
        IN  IF pr_env.fn = "is_valid_hls_stream"
            THEN IF valid
                 THEN pr_out.value.type = SubClass(text)
                 ELSE ~pr_out.value.alive /\ pr_out.value.type = "not_hls"
            ELSE ~valid => pr_out.value = FALSE

C20_Witness ==
    /\ Returned
    /\ pr_env.fn = "is_valid_hls_stream"
    /\ pr_io.content = <<" ", "#EXTM3U", "#EXTINF">>
    /\ pr_out.value.alive
    /\ pr_out.value.type = "hls"

(***************************************************************************)
(* Representative, trials, tie order and the final selection               *)
(***************************************************************************)
\* C26: the URL probed in phase 1 for an endpoint is the first URL of its
\* list that ends with .m3u8 or .m3u if there is one, otherwise the first URL
\* of the list; it is a member of the endpoint's own list, and phase 1 probes
\* no other URL.
C26_Representative ==
    \A h \in DOMAIN probe_log :
        LET urls == UrlsOf(h)
            hls == {i \in 1..Len(urls) : urls[i].ext \in {".m3u8", ".m3u"}}
            p1 == SelectSeq(probe_log[h], LAMBDA e : e.phase = "p1")
        IN  /\ Len(p1) <= 1
            /\ Len(p1) = 1 =>
                 /\ p1 = SubSeq(probe_log[h], 1, 1)
                 /\ \E i \in 1..Len(urls) : urls[i] = p1[1].url
                 /\ IF hls = {}
                    THEN p1[1].url = urls[1]
                    ELSE \E i \in hls : /\ p1[1].url = urls[i]
                                        /\ \A k \in hls : i <= k

C26_Witness ==
    /\ pc = "done"
    /\ \E h \in DOMAIN host_to_urls :
          /\ Len(host_to_urls[h]) = 5
          /\ probe_log[h][1].url = host_to_urls[h][3]
          /\ host_to_urls[h][4].ext = ".m3u"
    /\ \E h \in DOMAIN host_to_urls :
          /\ Len(host_to_urls[h]) >= 2
          /\ probe_log[h][1].url = host_to_urls[h][1]
          /\ probe_log[h][1].url.ext = ".ts"

\* the position of a URL among the items of channel c
PositionIn(c, u) ==
    CHOOSE k \in 1..20 :
        \E j \in 1..Len(grouped) :
            /\ grouped[j].name = c
            /\ k <= Len(grouped[j].items)
            /\ grouped[j].items[k].url = u

\* C27: candidates of one channel whose endpoints have equal latency are
\* probed in the order in which the channel lists them.
C27_StableTies ==
    \A c \in Confirmed :
        LET probes == ProbesOf(c)
        IN  \A i, j \in 1..Len(probes) :
               (i < j /\ LatencyOf(probes[i].url) = LatencyOf(probes[j].url))
                  => PositionIn(c, probes[i].url) < PositionIn(c, probes[j].url)

C27_Witness ==
    /\ "Y" \in Confirmed
    /\ Len(ProbesOf("Y")) = 3
    /\ LatencyOf(ProbesOf("Y")[1].url) = LatencyOf(ProbesOf("Y")[2].url)
    /\ LatencyOf(ProbesOf("Y")[2].url) < LatencyOf(ProbesOf("Y")[3].url)
    /\ ProbesOf("Y")[1].url.host = "b.test:80"
    /\ ProbesOf("Y")[2].url.host = "c.test:80"
    /\ ProbesOf("Y")[3].url.host = "a.test:80"

\* C28: when the host tester is done, the trials of every endpoint's record is
\* the number of Prober calls made on that endpoint's URLs (endpoints with a
\* URL to probe, as main builds them).
C28_TrialsCountProbes ==
    pc = "done" =>
        \A h \in DOMAIN host_quality :
            Len(UrlsOf(h)) > 0 => host_quality[h].trials = Len(probe_log[h])

\* the entries of the final selection for channel c
EntriesOf(c) == SelectSeq(final_channels, LAMBDA e : e.channel = c)

\* C29: the final selection has at most one entry per channel; the URL of an
\* entry is a candidate of that channel (one of its items, its endpoint
\* alive) whose confirmatory probe returned true; build_final_playlist leaves
\* grouped, url_to_host and host_quality as they were passed in.
C29_OnePerChannel ==
    /\ [](\A j \in 1..Len(final_channels) :
            LET e == final_channels[j]
            IN  /\ Len(EntriesOf(e.channel)) = 1
                /\ e.url \in LiveUrlsOf(e.channel)
                /\ \E k \in 1..Len(confirm_log) :
                      /\ confirm_log[k].channel = e.channel
                      /\ confirm_log[k].url = e.url
                      /\ confirm_log[k].ok
                /\ \E g \in 1..Len(grouped) : \E k \in 1..Len(grouped[g].items) :
                      /\ grouped[g].name = e.channel
                      /\ grouped[g].items[k].url = e.url
                      /\ grouped[g].items[k].original_name = e.original_name)
    /\ [][(pc \in {"done", "confirm", "built"}) =>
             (grouped' = grouped /\ url_to_host' = url_to_host
                 /\ host_quality' = host_quality)]_vars

C29_Witness ==
    /\ pc = "built"
    /\ Len(final_channels) = 2
    /\ Len(ProbesOf("X")) = 2
    /\ Len(ProbesOf("Y")) = 3

(***************************************************************************)
(* get_host_key                                                            *)
(***************************************************************************)
\* the largest port urlparse accepts
MaxPort == 65535

\* a URL as urlparse splits it: scheme, host and port as written, and the rest
ParsedUrls ==
    [scheme : {"http", "https"},
     host : {"a.test", "A.TEST", "b.test", ""},
     port : {"", "0", "80", "443", "8080", "99999", "x"},
     path : {"/1.m3u8", "/2.ts?q=1"}]

\* str.lower() of a host name
LowerHost(h) == IF h = "A.TEST" THEN "a.test" ELSE h

\* p.hostname: lower case, None for an empty host
NoHostname == "None"
Hostname(u) == IF u.host = "" THEN NoHostname ELSE LowerHost(u.host)

\* int(port, 10) of a run of digits
PortNumber(text) ==
    CASE text = "0" -> 0
      [] text = "80" -> 80
      [] text = "443" -> 443
      [] text = "8080" -> 8080
      [] text = "99999" -> 99999
      [] OTHER -> -1

\* p.port: None without a port, ValueError for a port that is no number or
\* is out of range
PortOf(u) ==
    IF u.port = "" THEN [kind |-> "none", value |-> 0]
    ELSE IF PortNumber(u.port) < 0 \/ PortNumber(u.port) > MaxPort
         THEN [kind |-> "ValueError", value |-> 0]
         ELSE [kind |-> "int", value |-> PortNumber(u.port)]

\* 443 if p.scheme == "https" else 80
DefaultPort(u) == IF u.scheme = "https" THEN 443 ELSE 80

\* the key "host:port", and None
HostKey(host, port) == [host |-> host, port |-> port]
NoKey == [host |-> "None", port |-> 0]

get_host_key(u) ==
    IF PortOf(u).kind = "ValueError" THEN NoKey
    ELSE LET port == IF PortOf(u).kind = "int" /\ PortOf(u).value # 0
                     THEN PortOf(u).value
                     ELSE DefaultPort(u)
         IN  IF Hostname(u) # NoHostname THEN HostKey(Hostname(u), port) ELSE NoKey

\* the tester, the playlist builder and the probers are not running
CoreIdle ==
    /\ host_to_urls = << >>
    /\ TesterStart
    /\ mock = [fixed |-> FALSE, verdict |-> << >>]
    /\ PlaylistIdle
    /\ ProberIdle

coreVars == <<testerVars, playlistVars, proberVars>>

\* get_host_key is called on two URLs
InitHostKey ==
    /\ CoreIdle
    /\ \E u1 \in ParsedUrls, u2 \in ParsedUrls :
          call = [fn |-> "get_host_key", args |-> <<u1, u2>>, out |-> << >>, done |-> FALSE]
    /\ proc = "running"
    /\ lite = << >>
    /\ stats = NoStats

ApplyGetHostKey ==
    /\ call.fn = "get_host_key"
    /\ ~call.done
    /\ call' = [call EXCEPT !.out = [i \in 1..Len(call.args) |-> get_host_key(call.args[i])],
                            !.done = TRUE]
    /\ UNCHANGED <<coreVars, proc, lite, stats>>

NextHostKey == ApplyGetHostKey

SpecHostKey == InitHostKey /\ [][NextHostKey]_vars

\* the port the claim resolves: the explicit port, or 80 / 443 when none is given
ResolvedPort(u) ==
    IF u.port = "" THEN (IF u.scheme = "https" THEN 443 ELSE 80) ELSE PortNumber(u.port)

\* host names are compared without regard to case
SameHost(u1, u2) == LowerHost(u1.host) = LowerHost(u2.host)

\* C21: of two URLs that both get a key, the keys are equal if host and
\* resolved port are equal, whatever path and query are, and different if the
\* hosts or the resolved ports differ.
C21_KeyIffHostAndPort ==
    (call.fn = "get_host_key" /\ call.done) =>
        LET u1 == call.args[1]
            u2 == call.args[2]
        IN  (call.out[1] # NoKey /\ call.out[2] # NoKey) =>
               (call.out[1] = call.out[2]
                   <=> (SameHost(u1, u2) /\ ResolvedPort(u1) = ResolvedPort(u2)))

\* C22: get_host_key returns None only for a URL without a host name: every
\* URL with a host name gets a key, whatever its port component.
C22_AbsentOnlyWithoutHostname ==
    (call.fn = "get_host_key" /\ call.done) =>
        \A i \in 1..Len(call.args) :
            call.out[i] = NoKey <=> call.args[i].host = ""

(***************************************************************************)
(* guess_group and Config.GROUP_RULES                                      *)
(***************************************************************************)
\* longest title, in words
MaxTitle == 2

\* words of a title; a title is its words joined by blanks.  Words that are
\* not ASCII are written by their code points.
WeiShi == "<U+536B><U+89C6>"
JiaoYu == "<U+6559><U+80B2>"
PinDao == "<U+9891><U+9053>"
TitleWords == {"CCTV14", "CCTV", WeiShi, "TVB", "NBA", "HBO", "BBC", "bbc", JiaoYu,
               "News", PinDao}

RECURSIVE SeqsUpTo(_, _)
SeqsUpTo(S, n) ==
    IF n = 0 THEN {<< >>}
    ELSE SeqsUpTo(S, n - 1) \cup
         {Append(t, w) : t \in {q \in SeqsUpTo(S, n - 1) : Len(q) = n - 1}, w \in S}

Titles == SeqsUpTo(TitleWords, MaxTitle)

\* re.IGNORECASE
Fold(w) == IF w = "bbc" THEN "BBC" ELSE w

\* the character class and the look-aheads of the last rule: only ASCII
\* letters, digits, blanks and a few signs; a letter; not the word cctv or cgtn
EnglishOnly(title) ==
    /\ title # << >>
    /\ \A j \in 1..Len(title) : title[j] \notin {WeiShi, JiaoYu, PinDao}
    /\ \A j \in 1..Len(title) : Fold(title[j]) \notin {"CCTV", "CGTN"}

\* a rule that is an alternation of keywords: the title words that contain one
\* of them, and whether one alternative is empty
Keywords(words, empty, group) ==
    [kind |-> "keywords", words |-> words, empty |-> empty, group |-> group]

\* Config.GROUP_RULES of iptvflowLite.py
GROUP_RULES_LITE ==
    << Keywords({"CCTV14"}, FALSE, "children"),
       Keywords({"CCTV14", "CCTV"}, FALSE, "cctv"),
       Keywords({WeiShi}, FALSE, "satellite"),
       Keywords({"TVB"}, FALSE, "hk_mo_tw"),
       Keywords({"NBA"}, FALSE, "sports"),
       Keywords({"HBO"}, FALSE, "movies"),
       Keywords({"HBO", "BBC"}, FALSE, "international"),
       Keywords({JiaoYu}, FALSE, "education"),
       [kind |-> "english_only", words |-> {}, empty |-> FALSE, group |-> "international"] >>

\* Config.GROUP_RULES of iptvflow.py: the eighth pattern ends in "|)"
GROUP_RULES ==
    [GROUP_RULES_LITE EXCEPT ![8] = Keywords({JiaoYu}, TRUE, "education")]

\* re.search(pat, title, re.IGNORECASE)
Search(rule, title) ==
    IF rule.kind = "keywords"
    THEN rule.empty \/ \E j \in 1..Len(title) : Fold(title[j]) \in rule.words
    ELSE EnglishOnly(title)

DefaultGroup == "other"

RECURSIVE FirstMatch(_, _)
FirstMatch(rules, title) ==
    IF rules = << >> THEN DefaultGroup
    ELSE IF Search(Head(rules), title) THEN Head(rules).group
    ELSE FirstMatch(Tail(rules), title)

guess_group(title) == FirstMatch(GROUP_RULES, title)
guess_group_lite(title) == FirstMatch(GROUP_RULES_LITE, title)

\* guess_group of one of the two files is called on a title
InitGroup ==
    /\ CoreIdle
    /\ \E file \in {"iptvflow", "iptvflowLite"}, title \in Titles :
          call = [fn |-> "guess_group", args |-> <<file, title>>, out |-> << >>, done |-> FALSE]
    /\ proc = "running"
    /\ lite = << >>
    /\ stats = NoStats

ApplyGuessGroup ==
    /\ call.fn = "guess_group"
    /\ ~call.done
    /\ call' = [call EXCEPT !.out = << IF call.args[1] = "iptvflow"
                                       THEN guess_group(call.args[2])
                                       ELSE guess_group_lite(call.args[2]) >>,
                            !.done = TRUE]
    /\ UNCHANGED <<coreVars, proc, lite, stats>>

NextGroup == ApplyGuessGroup

SpecGroup == InitGroup /\ [][NextGroup]_vars

\* the title holds a keyword of one of the eight keyword rules
HasKeyword(title) ==
    \E j \in 1..Len(title) :
        title[j] \in {"CCTV14", "CCTV", WeiShi, "TVB", "NBA", "HBO", "BBC", "bbc", JiaoYu}

\* C30: a title that matches none of the keyword rules gets the international
\* group if it is all English without the word CCTV or CGTN, and the default
\* group otherwise.
C30_FallsThroughToDefault ==
    (call.fn = "guess_group" /\ call.done /\ ~HasKeyword(call.args[2])) =>
        call.out[1] = IF call.args[2] # << >>
                         /\ \A j \in 1..Len(call.args[2]) : call.args[2][j] = "News"
                      THEN "international"
                      ELSE "other"

(***************************************************************************)
(* iptvflowLite: load_blacklist, is_blocked_by_blacklist, and main from    *)
(* the blacklist filter to the call of test_hosts_two_phase                *)
(***************************************************************************)
\* a line of config/blackHost_list.txt: a comment, or what is written before
\* and after the first colon
Entry(host) == [comment |-> FALSE, host |-> host, colon |-> FALSE, port |-> ""]
EntryPort(host, port) == [comment |-> FALSE, host |-> host, colon |-> TRUE, port |-> port]
Comment == [comment |-> TRUE, host |-> "# a.test", colon |-> FALSE, port |-> ""]
Blank == Entry("")

\* str.isdigit()
IsDigit(text) == PortNumber(text) >= 0

\* the blacklist files of the runs; the empty one is also the missing file
BlacklistFiles ==
    { << >>,
      << Comment, Entry("b.test") >>,
      << EntryPort("A.TEST", "80"), Blank >>,
      << EntryPort("c.test", "0"), EntryPort("c.test", "x"), EntryPort("", "80") >>,
      << EntryPort("c.test", "80"), Entry("A.TEST") >>,
      << EntryPort("a.test", "8080") >> }

\* load_blacklist: (host_only, host_with_port)
load_blacklist(file) ==
    LET lines == {file[j] : j \in 1..Len(file)}
        entries == {l \in lines : ~l.comment /\ (l.host # "" \/ l.colon)}
    IN  [host_only |-> {LowerHost(l.host) : l \in {e \in entries : ~e.colon}},
         host_with_port |->
             {HostKey(LowerHost(l.host), PortNumber(l.port)) :
                 l \in {e \in entries : e.colon /\ e.host # "" /\ IsDigit(e.port)}}]

\* is_blocked_by_blacklist: FALSE for a URL without host name and for one whose
\* port raises; the exact key is built from the port, or from the default
\* port when the port is absent or 0
is_blocked_by_blacklist(u, host_only_set, host_with_port_set) ==
    IF Hostname(u) = NoHostname THEN FALSE
    ELSE IF PortOf(u).kind = "ValueError" THEN FALSE
    ELSE LET port == IF PortOf(u).kind = "int" /\ PortOf(u).value # 0
                     THEN PortOf(u).value
                     ELSE DefaultPort(u)
         IN  \/ HostKey(Hostname(u), port) \in host_with_port_set
             \/ Hostname(u) \in host_only_set

\* is_valid_url: scheme http or https, and a network location
is_valid_url(u) == u.scheme \in {"http", "https"} /\ (u.host # "" \/ u.port # "")

\* normalize_channel_name on the names of the runs: the quality mark is dropped
normalize_channel_name(name) == IF name = "X HD" THEN "X" ELSE name

RawUrl(scheme, host, port, path) ==
    [scheme |-> scheme, host |-> host, port |-> port, path |-> path]

\* parse_m3u's records of the runs: three endpoints, one of them written in
\* two ways, a port that is no port, a port 0, and a repeat; parse_m3u keeps
\* only entries whose URL is_valid_url accepts
RawChannels ==
    << [name |-> "X", url |-> RawUrl("http", "a.test", "", "/1.m3u8")],
       [name |-> "X", url |-> RawUrl("http", "b.test", "80", "/1.m3u8")],
       [name |-> "X HD", url |-> RawUrl("http", "c.test", "0", "/1.m3u8")],
       [name |-> "Y", url |-> RawUrl("http", "A.TEST", "80", "/2.ts?q=1")],
       [name |-> "Y", url |-> RawUrl("http", "b.test", "99999", "/2.ts?q=1")],
       [name |-> "X HD", url |-> RawUrl("http", "a.test", "", "/1.m3u8")] >>

\* f"{p.hostname}:{port}" of the endpoints of the runs
KeyText(k) ==
    CASE k = HostKey("a.test", 80) -> "a.test:80"
      [] k = HostKey("b.test", 80) -> "b.test:80"
      [] k = HostKey("c.test", 80) -> "c.test:80"
      [] OTHER -> ""

\* the URL as the tester and the playlist builder see it: the endpoint key
\* get_host_key gives it, its number and its extension
TesterUrl(u) ==
    [host |-> KeyText(get_host_key(u)),
     idx |-> IF u.path = "/1.m3u8" THEN 1 ELSE 2,
     ext |-> IF u.path = "/1.m3u8" THEN ".m3u8" ELSE ".ts"]

\* for ch in raw_channels: skip what is not valid, skip and log what is blocked
RECURSIVE FilterChannels(_, _, _, _)
FilterChannels(chs, bl, kept, logged) ==
    IF chs = << >> THEN [filtered |-> kept, blocked_log |-> logged]
    ELSE IF ~is_valid_url(Head(chs).url)
         THEN FilterChannels(Tail(chs), bl, kept, logged)
    ELSE IF is_blocked_by_blacklist(Head(chs).url, bl.host_only, bl.host_with_port)
         THEN FilterChannels(Tail(chs), bl, kept, Append(logged, Head(chs).url))
    ELSE FilterChannels(Tail(chs), bl, Append(kept, Head(chs)), logged)

\* grouped[clean_name].append(...) for every URL not seen before
RECURSIVE GroupChannels(_, _, _)
GroupChannels(chs, seen, acc) ==
    IF chs = << >> THEN acc
    ELSE LET ch == Head(chs)
             clean_name == normalize_channel_name(ch.name)
             item == [url |-> TesterUrl(ch.url), original_name |-> ch.name]
             at == {j \in 1..Len(acc) : acc[j].name = clean_name}
         IN  IF ch.url \in seen THEN GroupChannels(Tail(chs), seen, acc)
             ELSE GroupChannels(Tail(chs), seen \cup {ch.url},
                     IF at = {}
                     THEN Append(acc, [name |-> clean_name, items |-> <<item>>])
                     ELSE [acc EXCEPT ![CHOOSE j \in at : TRUE].items = Append(@, item)])

\* main before load_blacklist
InitLite ==
    /\ pc = "main"
    /\ host_to_urls = << >>
    /\ p1_status = << >>
    /\ p1_result = << >>
    /\ initial_results = << >>
    /\ host_quality = << >>
    /\ hosts_to_retry = << >>
    /\ fb_status = << >>
    /\ fb_i = << >>
    /\ fb_res = << >>
    /\ fb_result = << >>
    /\ probe_log = [h \in MainHosts |-> << >>]
    /\ write_log = [h \in MainHosts |-> << >>]
    /\ mock = [fixed |-> FALSE, verdict |-> << >>]
    /\ PlaylistIdle
    /\ ProberIdle
    /\ call = NoCall
    /\ proc = "running"
    /\ stats = NoStats
    /\ \E file \in BlacklistFiles :
          lite = [pc |-> "load", file |-> file, raw_channels |-> RawChannels,
                  host_only |-> {}, host_with_port |-> {},
                  filtered |-> << >>, blocked_log |-> << >>]

\* host_only_blacklist, exact_blacklist = load_blacklist()
LiteLoadBlacklist ==
    /\ lite # << >>
    /\ lite.pc = "load"
    /\ lite' = [lite EXCEPT !.pc = "filter",
                            !.host_only = load_blacklist(lite.file).host_only,
                            !.host_with_port = load_blacklist(lite.file).host_with_port]
    /\ UNCHANGED <<coreVars, call, proc, stats>>

\* the filter loop of main
LiteFilter ==
    /\ lite # << >>
    /\ lite.pc = "filter"
    /\ LET r == FilterChannels(lite.raw_channels,
                               [host_only |-> lite.host_only,
                                host_with_port |-> lite.host_with_port],
                               << >>, << >>)
       IN  lite' = [lite EXCEPT !.pc = "group", !.filtered = r.filtered,
                                !.blocked_log = r.blocked_log]
    /\ UNCHANGED <<coreVars, call, proc, stats>>

\* grouped, url_to_host, host_to_urls, and test_hosts_two_phase is entered
LiteGroup ==
    /\ lite # << >>
    /\ lite.pc = "group"
    /\ pc = "main"
    /\ lite' = [lite EXCEPT !.pc = "test"]
    /\ pc' = "phase1"
    /\ grouped' = GroupChannels(lite.filtered, {}, << >>)
    /\ url_to_host' = UrlToHost(grouped')
    /\ host_to_urls' = HostToUrls(grouped')
    /\ LET futures == SelectSeq(Keys(host_to_urls'),
                                LAMBDA h : RepUrl(host_to_urls'[h]) # None)
       IN  /\ p1_status' = [f \in 1..Len(futures) |-> "queued"]
           /\ p1_result' = [f \in 1..Len(futures) |-> NoVerdict]
    /\ UNCHANGED <<initial_results, host_quality, hosts_to_retry, fb_status,
                   fb_i, fb_res, fb_result, probe_log, write_log, mock,
                   channel_to_candidates, final_channels, bp_pc, confirm_log,
                   report, proberVars, call, proc, stats>>

NextLite ==
    \/ LiteLoadBlacklist
    \/ LiteFilter
    \/ LiteGroup
    \/ NextMain

SpecLite == InitLite /\ [][NextLite]_vars

\* what the claim calls listed: the lower-case host name is in the host-only
\* set, or host and resolved port are in the exact set
Listed(u) ==
    \/ LowerHost(u.host) \in lite.host_only
    \/ HostKey(LowerHost(u.host), ResolvedPort(u)) \in lite.host_with_port

UrlsOfSeq(q) == {q[j] : j \in 1..Len(q)}

\* the URLs that were grouped, handed to the tester, probed, or selected
UrlsInUse ==
    UrlsOfSeq(AllUrls(grouped))
      \cup UNION {UrlsOfSeq(host_to_urls[h]) : h \in DOMAIN host_to_urls}
      \cup UNION {{probe_log[h][j].url : j \in 1..Len(probe_log[h])} : h \in DOMAIN probe_log}
      \cup {confirm_log[j].url : j \in 1..Len(confirm_log)}
      \cup {final_channels[j].url : j \in 1..Len(final_channels)}

\* C24: once the filter has run, a valid URL was blocked exactly when it is
\* listed (host name in the host-only set, or host and resolved port in the
\* exact set), and no listed URL is grouped, handed to the tester, probed or
\* selected.
C24_BlockedIffListed ==
    (lite # << >> /\ lite.pc \in {"group", "test"}) =>
        \A j \in 1..Len(lite.raw_channels) :
            LET u == lite.raw_channels[j].url
            IN  is_valid_url(u) =>
                   /\ (u \in UrlsOfSeq(lite.blocked_log) <=> Listed(u))
                   /\ (Listed(u) => TesterUrl(u) \notin UrlsInUse)

(***************************************************************************)
(* __main__: KeyboardInterrupt while main runs                             *)
(***************************************************************************)
\* the grouped channels of an interrupted run: more endpoints than workers,
\* one of them with a fallback URL
CancelInputs ==
    { << [name |-> "X", items |-> << Item("a.test:80", 1, "X") >>],
         [name |-> "Y", items |-> << Item("b.test:80", 1, "Y"),
                                     Item("a.test:80", 2, "Y HD") >>],
         [name |-> "Z", items |-> << Item("c.test:80", 1, "Z") >>] >> }

\* main has built grouped, url_to_host and host_to_urls and has entered
\* test_hosts_two_phase
InitCancel ==
    /\ grouped \in CancelInputs
    /\ url_to_host = UrlToHost(grouped)
    /\ host_to_urls = HostToUrls(grouped)
    /\ TesterStart
    /\ mock = [fixed |-> FALSE, verdict |-> << >>]
    /\ channel_to_candidates = << >>
    /\ final_channels = << >>
    /\ bp_pc = [ch |-> 0, cand |-> 0, inflight |-> FALSE]
    /\ confirm_log = << >>
    /\ report = [available |-> {}, unavailable |-> {}]
    /\ ProberIdle
    /\ AuxIdle

\* the tasks of the pool whose with-block the main thread is in
PoolStatus ==
    IF pc = "phase1" THEN p1_status
    ELSE IF pc = "phase2" THEN fb_status
    ELSE << >>

\* KeyboardInterrupt is raised in the main thread between two of its steps:
\* while it waits in as_completed, while test_single_stream runs, or between
\* two statements of main
Interrupt ==
    /\ proc = "running"
    /\ proc' = "interrupted"
    /\ UNCHANGED <<coreVars, call, lite, stats>>

\* the tasks of a pool that were never submitted
Unsubmitted(status, k) ==
    [f \in DOMAIN status |-> IF f > k THEN "unsubmitted" ELSE status[f]]

\* no future was yielded by as_completed yet, and the tasks behind the k-th
\* were not taken by a worker: the state while the main thread still submits
Submitting(status, k) ==
    /\ k \in 0..(Len(status) - 1)
    /\ \A f \in DOMAIN status : status[f] # "collected"
    /\ \A f \in DOMAIN status : f > k => status[f] = "queued"

\* KeyboardInterrupt while the tasks of a pool are submitted: k tasks were
\* submitted, the others never are
InterruptSubmitting(k) ==
    /\ proc = "running"
    /\ pc \in {"phase1", "phase2"}
    /\ Submitting(PoolStatus, k)
    /\ IF pc = "phase1"
       THEN /\ p1_status' = Unsubmitted(p1_status, k)
            /\ UNCHANGED fb_status
       ELSE /\ fb_status' = Unsubmitted(fb_status, k)
            /\ UNCHANGED p1_status
    /\ proc' = "interrupted"
    /\ UNCHANGED <<host_to_urls, pc, p1_result, initial_results, host_quality,
                   hosts_to_retry, fb_i, fb_res, fb_result, probe_log, write_log,
                   mock, playlistVars, proberVars, call, lite, stats>>

\* KeyboardInterrupt in the body of the phase-1 loop, after
\* initial_results[host] = result and before host_quality[host] = {...}
InterruptInCollect(f) ==
    /\ proc = "running"
    /\ pc = "phase1"
    /\ f \in DOMAIN p1_status
    /\ p1_status[f] = "done"
    /\ p1_result[f].alive
    /\ initial_results' = Put(initial_results, future_to_host[f], p1_result[f])
    /\ p1_status' = [p1_status EXCEPT ![f] = "collected"]
    /\ proc' = "interrupted"
    /\ UNCHANGED <<host_to_urls, pc, p1_result, host_quality, hosts_to_retry,
                   fb_status, fb_i, fb_res, fb_result, probe_log, write_log,
                   mock, playlistVars, proberVars, call, lite, stats>>

\* KeyboardInterrupt in the loop between the pools, after k endpoints: the
\* retry list and the no_fallback records of those k endpoints exist
InterruptInBuild(k) ==
    /\ proc = "running"
    /\ pc = "phase1"
    /\ Phase1Drained
    /\ k \in 1..Len(Keys(host_data))
    /\ LET first == SubSeq(Keys(host_data), 1, k)
           done == {first[j] : j \in 1..k} \cap NoFallbackHosts
       IN  /\ hosts_to_retry' = RetryList(first)
           /\ host_quality' = [host \in (DOMAIN host_quality) \cup done |->
                                 IF host \in done
                                 THEN NoFallbackRecord(host_data[host])
                                 ELSE host_quality[host]]
           /\ write_log' = [host \in MainHosts |->
                              IF host \in done
                              THEN Append(write_log[host], [by |-> host, src |-> "no_fallback"])
                              ELSE write_log[host]]
    /\ proc' = "interrupted"
    /\ UNCHANGED <<host_to_urls, pc, p1_status, p1_result, initial_results,
                   fb_status, fb_i, fb_res, fb_result, probe_log,
                   mock, playlistVars, proberVars, call, lite, stats>>

\* KeyboardInterrupt in the first loop of build_final_playlist, after k channels
InterruptInCandidates(k) ==
    /\ proc = "running"
    /\ pc = "done"
    /\ k \in 1..Len(grouped)
    /\ channel_to_candidates' = ChannelToCandidates(SubSeq(grouped, 1, k))
    /\ p1_status' = << >>
    /\ p1_result' = << >>
    /\ initial_results' = << >>
    /\ hosts_to_retry' = << >>
    /\ fb_status' = << >>
    /\ fb_i' = << >>
    /\ fb_res' = << >>
    /\ fb_result' = << >>
    /\ proc' = "interrupted"
    /\ UNCHANGED <<host_to_urls, pc, host_quality, probe_log, write_log, mock,
                   grouped, url_to_host, final_channels, bp_pc, confirm_log,
                   report, proberVars, call, lite, stats>>

\* KeyboardInterrupt after test_single_stream returned True and before
\* final_channels.append(selected)
InterruptInConfirm ==
    /\ proc = "running"
    /\ pc = "confirm"
    /\ bp_pc.inflight
    /\ LET entry == channel_to_candidates[bp_pc.ch]
           cand == entry.cands[bp_pc.cand]
       IN  confirm_log' = Append(confirm_log,
                                 [channel |-> entry.name, url |-> cand.url, ok |-> TRUE])
    /\ bp_pc' = [bp_pc EXCEPT !.inflight = FALSE]
    /\ proc' = "interrupted"
    /\ UNCHANGED <<testerVars, grouped, url_to_host, channel_to_candidates,
                   final_channels, report, proberVars, call, lite, stats>>

\* the with-block is left through the exception: ThreadPoolExecutor.__exit__
\* is shutdown(wait=True), which returns when every submitted task has run;
\* then except KeyboardInterrupt of __main__: logging.info(...), exit(1)
ExitInterrupted ==
    /\ proc = "interrupted"
    /\ \A f \in DOMAIN PoolStatus : PoolStatus[f] \notin {"queued", "running"}
    /\ proc' = "exit1"
    /\ UNCHANGED <<coreVars, call, lite, stats>>

\* generate_outputs_and_notify raises (open() of an output file fails); except
\* Exception of __main__: logging.exception(...), exit(1)
ExitOnException ==
    /\ proc = "running"
    /\ pc = "built"
    /\ proc' = "exit1"
    /\ UNCHANGED <<coreVars, call, lite, stats>>

\* generate_outputs_and_notify has returned; main returns and the interpreter
\* exits with status 0
ExitNormally ==
    /\ proc = "running"
    /\ pc = "end"
    /\ proc' = "exit0"
    /\ UNCHANGED <<coreVars, call, lite, stats>>

\* the pool workers run whether or not the main thread was interrupted; the
\* main thread takes its steps only while it runs
NextCancel ==
    \/ \E f \in DOMAIN p1_status : proc \in {"running", "interrupted"} /\ Phase1Start(f)
    \/ \E f \in DOMAIN p1_status : proc \in {"running", "interrupted"} /\ Phase1Probe(f)
    \/ \E f \in DOMAIN p1_status : proc = "running" /\ Phase1Collect(f)
    \/ (proc = "running" /\ Phase2Build)
    \/ \E f \in DOMAIN fb_status : proc \in {"running", "interrupted"} /\ FallbackStart(f)
    \/ \E f \in DOMAIN fb_status : proc \in {"running", "interrupted"} /\ FallbackProbe(f)
    \/ \E f \in DOMAIN fb_status : proc \in {"running", "interrupted"} /\ FallbackRecheck(f)
    \/ \E f \in DOMAIN fb_status : proc = "running" /\ FallbackCollect(f)
    \/ (proc = "running" /\ Finish)
    \/ (proc = "running" /\ BuildCandidates)
    \/ (proc = "running" /\ ConfirmStart)
    \/ (proc = "running" /\ ConfirmReturn)
    \/ (proc = "running" /\ PlaylistReturn)
    \/ (proc = "running" /\ GenerateReport)
    \/ Interrupt
    \/ \E k \in 0..Len(MainHostOrder) : InterruptSubmitting(k)
    \/ \E f \in DOMAIN p1_status : InterruptInCollect(f)
    \/ \E k \in 1..Len(MainHostOrder) : InterruptInBuild(k)
    \/ \E k \in 1..Len(grouped) : InterruptInCandidates(k)
    \/ InterruptInConfirm
    \/ ExitInterrupted
    \/ ExitOnException
    \/ ExitNormally

SpecCancel == InitCancel /\ [][NextCancel]_vars

\* C23: once the run is interrupted no queued task is started and no probe
\* completes any more, and the run does not end as a failure: the records
\* written so far are returned to main.
C23_CancelDeliversPartial ==
    /\ [][(proc = "interrupted") =>
             (/\ \A f \in DOMAIN p1_status :
                    p1_status[f] = "queued" => p1_status'[f] = "queued"
              /\ \A f \in DOMAIN fb_status :
                    fb_status[f] = "queued" => fb_status'[f] = "queued"
              /\ probe_log' = probe_log)]_vars
    /\ [](proc # "exit1")

(***************************************************************************)
(* test_hosts_two_phase under fair scheduling: every probe returns, every  *)
(* submitted task is run, the main thread is scheduled                     *)
(***************************************************************************)
\* longest URL list of these runs
MaxLiveUrls == 2

\* no endpoint at all, and one or two endpoints with up to MaxLiveUrls URLs
LiveInputs == {f \in Inputs : \A h \in DOMAIN f : Len(f[h]) <= MaxLiveUrls}

InitLive ==
    /\ host_to_urls \in LiveInputs
    /\ TesterStart
    /\ mock = [fixed |-> FALSE, verdict |-> << >>]
    /\ PlaylistIdle
    /\ ProberIdle
    /\ AuxIdle

SpecLive == InitLive /\ [][Next]_vars /\ WF_vars(Next)

\* C25: the tester terminates, and when it has, every input endpoint has a
\* quality record, and the survival rate is the number of alive records over
\* the number of input endpoints (in percent), and 0, with no division error,
\* when there is no endpoint.
C25_TerminatesWithRate ==
    /\ <>(pc = "done")
    /\ [](pc = "done" =>
            LET total == Cardinality(DOMAIN host_to_urls)
                alive == Cardinality({h \in DOMAIN host_to_urls :
                                         h \in DOMAIN host_quality /\ host_quality[h].alive})
            IN  /\ DOMAIN host_quality = DOMAIN host_to_urls
                /\ \A h \in DOMAIN host_quality :
                      /\ host_quality[h].alive \in BOOLEAN
                      /\ host_quality[h].trials >= 1
                /\ stats.survival_rate # ZeroDivisionError
                /\ total = 0 => stats.survival_rate = ZeroRate
                /\ total > 0 =>
                      /\ stats.survival_rate.den > 0
                      /\ stats.survival_rate.num * total
                            = 100 * alive * stats.survival_rate.den)

C25_Witness ==
    /\ pc = "done"
    /\ Cardinality(DOMAIN host_to_urls) = 2
    /\ \E h \in DOMAIN host_quality : host_quality[h].alive
    /\ \E h \in DOMAIN host_quality : ~host_quality[h].alive
    /\ stats.survival_rate = [num |-> 100, den |-> 2]

====
